---- MODULE Spec2Model ----
(***************************************************************************)
(* A model of backend/app.py:                                              *)
(*   - the search-filter mini-language (apply_search_filter, match_range,  *)
(*     match_number_range),                                                *)
(*   - the level-multiplier table and the stat model (get_cpm, calc_cp,    *)
(*     calc_stats), the top-spread finder (compute_top10_ivs),             *)
(*   - the ranking index (best_ranking_entry_for_prefix) and the match     *)
(*     annotator (pvp_match_and_annotate) with their memo caches,          *)
(*   - the team synthesiser (compute_best_teams).                          *)
(*   - the uploads (upload_json, extract_metadata_from_filename,           *)
(*     get_progress) with the progress entries and the stored exports.     *)
(*                                                                         *)
(* A field whose value int() refuses is listed in the record's "not_int"   *)
(* set, a field holding None in its "null" set.                            *)
(*                                                                         *)
(* Text is modelled by TLA+ strings, handled character by character with   *)
(* Len, SubSeq and \o, so that splitting, trimming, lower-casing, prefix   *)
(* tests and number parsing are computed the way the code computes them.   *)
(***************************************************************************)
EXTENDS Integers, Sequences, FiniteSets, TLC

VARIABLES
    \* ---- search filter (one request of get_file_data's search step) ----
    pokemon_list,     \* the collection the request filters
    search_query,     \* the query text of the request, as received
    results,          \* what apply_search_filter returned last
    first_results,    \* what the first application of the query returned
    fphase,           \* "idle" | "filtered" | "refiltered" | "negated" | "raised"
    \* ---- level multipliers and top spreads ----
    CPM_INT,          \* the level-multiplier table: level -> multiplier (squared)
    top_args,         \* the arguments of the last compute_top10_ivs call
    top_result,       \* its outcome: [raised |-> ..., value |-> the list]
    \* ---- ranking index and match annotator ----
    ranking_files,    \* the ranking lists on disk: <<category, league>> -> list
    PVP_RANKINGS_CACHE,     \* <<category, league>> -> loaded list
    PVP_PREFIX_BEST_CACHE,  \* <<category, league>> -> (prefix -> entry or NONE)
    PVP_TOP10_IV_CACHE,     \* <<number, form, league>> -> top spreads
    pool,             \* the records of the request (mutated by the annotator)
    last,             \* the last call: its arguments, outcome and exit point
    ncalls,           \* calls made so far
    \* ---- team synthesis ----
    team_args,        \* the arguments of the last compute_best_teams call
    best_teams,       \* the list it returned
    \* ---- uploads ----
    ENRICHMENT_PROGRESS,  \* file identifier -> [current, total, status]
    user_dir,         \* the uploader's directory: <<identifier, extension>> -> file
    public_index,     \* public_index.json: identifier -> entry
    upload,           \* the upload request being served and its position
    responses,        \* the responses of the upload requests, in order
    progress_reply    \* what get_progress answered last

filter_vars == <<pokemon_list, search_query, results, first_results, fphase>>

top_vars == <<top_args, top_result>>

pvp_vars == <<ranking_files, PVP_RANKINGS_CACHE, PVP_PREFIX_BEST_CACHE,
              PVP_TOP10_IV_CACHE, pool, last, ncalls>>

team_vars == <<team_args, best_teams>>

upload_vars == <<ENRICHMENT_PROGRESS, user_dir, public_index, upload, responses,
                 progress_reply>>

vars == <<pokemon_list, search_query, results, first_results, fphase,
          CPM_INT, top_args, top_result,
          ranking_files, PVP_RANKINGS_CACHE, PVP_PREFIX_BEST_CACHE,
          PVP_TOP10_IV_CACHE, pool, last, ncalls, team_args, best_teams,
          ENRICHMENT_PROGRESS, user_dir, public_index, upload, responses,
          progress_reply>>

(***************************************************************************)
(* Bounds of the model.                                                    *)
(***************************************************************************)
MaxList == 2          \* longest collection of a request
MaxIV == 2            \* largest individual value (15 in the code: range(16))
MaxLevel == 4         \* top level of the ladder (51 in the code)
MaxCalls == 2         \* calls of the ranking index and the annotator in a behaviour

(***************************************************************************)
(* Python str and list helpers.                                            *)
(***************************************************************************)
CharAt(s, i) == SubSeq(s, i, i)

UpperChars == "ABCDEFGHIJKLMNOPQRSTUVWXYZ"
LowerChars == "abcdefghijklmnopqrstuvwxyz"

\* str.lower() of one character
lower_char(c) ==
    IF \E i \in 1..Len(UpperChars) : CharAt(UpperChars, i) = c
    THEN CharAt(LowerChars, CHOOSE i \in 1..Len(UpperChars) : CharAt(UpperChars, i) = c)
    ELSE c

RECURSIVE lower(_)
\* str.lower()
lower(s) == IF Len(s) = 0 THEN "" ELSE lower_char(CharAt(s, 1)) \o lower(SubSeq(s, 2, Len(s)))

RECURSIVE upper(_)
upper_char(c) ==
    IF \E i \in 1..Len(LowerChars) : CharAt(LowerChars, i) = c
    THEN CharAt(UpperChars, CHOOSE i \in 1..Len(LowerChars) : CharAt(LowerChars, i) = c)
    ELSE c
\* str.upper()
upper(s) == IF Len(s) = 0 THEN "" ELSE upper_char(CharAt(s, 1)) \o upper(SubSeq(s, 2, Len(s)))

IsSpace(c) == c \in {" ", "\t"}

\* str.strip()
strip(s) ==
    LET keep == {i \in 1..Len(s) : ~IsSpace(CharAt(s, i))} IN
    IF keep = {} THEN ""
    ELSE SubSeq(s, CHOOSE i \in keep : \A j \in keep : i <= j,
                   CHOOSE i \in keep : \A j \in keep : i >= j)

\* str.startswith(pre)
startswith(s, pre) == Len(pre) <= Len(s) /\ SubSeq(s, 1, Len(pre)) = pre

\* str.endswith(suf)
endswith(s, suf) ==
    Len(suf) <= Len(s) /\ SubSeq(s, Len(s) - Len(suf) + 1, Len(s)) = suf

\* "sub in s" for strings
contains(s, sub) ==
    \E i \in 1..(Len(s) - Len(sub) + 1) : SubSeq(s, i, i + Len(sub) - 1) = sub

\* "c in s" for a set of single characters
has_char(s, chars) == \E i \in 1..Len(s) : CharAt(s, i) \in chars

RECURSIVE split(_, _)
\* re.split(r"[...]", s) and s.split(c): k separators give k+1 parts
split(s, seps) ==
    IF ~has_char(s, seps) THEN <<s>>
    ELSE LET i == CHOOSE i \in 1..Len(s) :
                      /\ CharAt(s, i) \in seps
                      /\ \A j \in 1..(i - 1) : CharAt(s, j) \notin seps
         IN <<SubSeq(s, 1, i - 1)>> \o split(SubSeq(s, i + 1, Len(s)), seps)

Digits == "0123456789"
IsDigit(c) == \E i \in 1..Len(Digits) : CharAt(Digits, i) = c
DigitVal(c) == (CHOOSE i \in 1..Len(Digits) : CharAt(Digits, i) = c) - 1
\* the body of an int() literal: what is left of the text once the surrounding
\* whitespace and one leading "+" are removed
int_body(s) ==
    LET t == strip(s) IN
    IF startswith(t, "+") THEN SubSeq(t, 2, Len(t)) ELSE t
\* whether int(s) parses (no ValueError): digits, single "_" between digits
\* allowed.  A leading "-" cannot reach int() here: the callers split on "-".
is_int(s) ==
    LET b == int_body(s) IN
    /\ Len(b) > 0
    /\ \A i \in 1..Len(b) :
          \/ IsDigit(CharAt(b, i))
          \/ /\ CharAt(b, i) = "_"
             /\ 1 < i /\ i < Len(b)
             /\ IsDigit(CharAt(b, i - 1)) /\ IsDigit(CharAt(b, i + 1))
RECURSIVE digits_value(_)
digits_value(b) ==
    IF Len(b) = 0 THEN 0
    ELSE IF CharAt(b, Len(b)) = "_" THEN digits_value(SubSeq(b, 1, Len(b) - 1))
    ELSE 10 * digits_value(SubSeq(b, 1, Len(b) - 1)) + DigitVal(CharAt(b, Len(b)))
\* int(s) of a text that is_int
int(s) == digits_value(int_body(s))

RECURSIVE str(_)
\* str(n) of a natural number
str(n) == IF n < 10 THEN CharAt(Digits, n + 1)
          ELSE str(n \div 10) \o CharAt(Digits, (n % 10) + 1)

RECURSIVE join(_, _)
\* sep.join(lst)
join(sep, lst) ==
    IF lst = <<>> THEN ""
    ELSE IF Len(lst) = 1 THEN lst[1]
    ELSE lst[1] \o sep \o join(sep, Tail(lst))

\* "x in lst" for a list (== on the elements)
in_list(x, lst) == \E i \in 1..Len(lst) : lst[i] = x

\* dict.get(key, default)
get(p, key, default) == IF key \in DOMAIN p THEN p[key] ELSE default

(***************************************************************************)
(* The range grammar of the filter language.                               *)
(***************************************************************************)
\* a slip: the upper bounds taken as exclusive
match_range_exclusive(query, prefix, value) ==
    LET q == SubSeq(query, Len(prefix) + 1, Len(query))
        parts == split(q, {"-"})
    IN  IF ~has_char(q, {"-"})
        THEN is_int(q) /\ value = int(q)
        ELSE IF startswith(q, "-")
        THEN is_int(parts[2]) /\ value < int(parts[2])
        ELSE IF endswith(q, "-")
        THEN is_int(parts[1]) /\ value >= int(parts[1])
        ELSE /\ is_int(parts[1])
             /\ (parts[2] # "" => is_int(parts[2]))
             /\ int(parts[1]) <= value
             /\ value < (IF parts[2] # "" THEN int(parts[2]) ELSE 999999)

\* match_range: "<prefix>N", "<prefix>N-", "<prefix>-N", "<prefix>N-M".  A
\* ValueError or IndexError of the code is the result False.
match_range(query, prefix, value) ==
    LET q == SubSeq(query, Len(prefix) + 1, Len(query))
        parts == split(q, {"-"})
    IN  IF ~has_char(q, {"-"})
        THEN is_int(q) /\ value = int(q)
        ELSE IF startswith(q, "-")
        THEN is_int(parts[2]) /\ value <= int(parts[2])
        ELSE IF endswith(q, "-")
        THEN is_int(parts[1]) /\ value >= int(parts[1])
        ELSE /\ is_int(parts[1])
             /\ (parts[2] # "" => is_int(parts[2]))
             /\ int(parts[1]) <= value
             /\ value <= (IF parts[2] # "" THEN int(parts[2]) ELSE 999999)

\* match_number_range: the same grammar on the species number, with no prefix
match_number_range(query, number) ==
    LET parts == split(query, {"-"})
    IN  IF ~has_char(query, {"-"})
        THEN is_int(query) /\ number = int(query)
        ELSE IF startswith(query, "-")
        THEN is_int(parts[2]) /\ number <= int(parts[2])
        ELSE IF endswith(query, "-")
        THEN is_int(parts[1]) /\ number >= int(parts[1])
        ELSE /\ is_int(parts[1])
             /\ is_int(parts[2])
             /\ int(parts[1]) <= number
             /\ number <= int(parts[2])

all_digits(s) == \A i \in 1..Len(s) : IsDigit(CharAt(s, i))

\* re.match(r"^\d+(-\d*)?$|^-\d+$", search_query)
is_number_query(query) ==
    LET parts == split(query, {"-"})
    IN  \/ Len(parts) = 1 /\ parts[1] # "" /\ all_digits(parts[1])
        \/ Len(parts) = 2 /\ parts[1] # "" /\ all_digits(parts[1]) /\ all_digits(parts[2])
        \/ Len(parts) = 2 /\ parts[1] = "" /\ parts[2] # "" /\ all_digits(parts[2])

\* re.match(r"^[0-4]\*$", search_query)
is_star_query(query) ==
    /\ Len(query) = 2
    /\ CharAt(query, 1) \in {"0", "1", "2", "3", "4"}
    /\ CharAt(query, 2) = "*"

TYPE_KEYWORDS ==
    {"normal", "fire", "water", "electric", "grass", "ice", "fighting", "poison",
     "ground", "flying", "psychic", "bug", "rock", "ghost", "dragon", "dark",
     "steel", "fairy"}

\* _truthy: the flags of the model's records are booleans
_truthy(v) == v = TRUE

\* _is_gigantamax and _is_dynamax_only, for records whose "gigantamax" and
\* "dynamax" fields, when present, are booleans (no dynamax dict, no display form)
_is_gigantamax(p) == get(p, "gigantamax", FALSE) = TRUE
_is_dynamax_only(p) == ~_is_gigantamax(p) /\ get(p, "dynamax", FALSE) = TRUE
\* _has_special_background, for records with the boolean "hasLocationCard"
_has_special_background(p) == get(p, "hasLocationCard", FALSE) = TRUE

\* the body of the loop of apply_search_filter: whether one record is kept by
\* an atomic predicate (search_query, trimmed and lower-cased, holds no
\* "," ";" "&" and does not start with "!")
atom_match(pokemon, query) ==
    IF query = "apex" THEN get(pokemon, "apex", FALSE) = TRUE
    ELSE IF startswith(query, "+")
    THEN contains(lower(get(pokemon, "family", "")),
                  SubSeq(query, 2, Len(query)))
    ELSE IF startswith(query, "cp")
    THEN match_range(query, "cp", get(pokemon, "cp", 0))
    ELSE IF startswith(query, "hp")
    THEN match_range(query, "hp", get(pokemon, "hp", 0))
    ELSE IF startswith(query, "atk")
    THEN match_range(query, "atk", get(pokemon, "attack", 0))
    ELSE IF startswith(query, "def")
    THEN match_range(query, "def", get(pokemon, "defence", 0))
    ELSE IF startswith(query, "stm")
    THEN match_range(query, "stm", get(pokemon, "stamina", 0))
    ELSE IF is_number_query(query)
    THEN match_number_range(query, get(pokemon, "number", 0))
    ELSE IF is_star_query(query)
    THEN get(pokemon, "iv_tier", "") = query
    ELSE IF query \in {"shiny", "shadow", "purified", "lucky"}
    THEN _truthy(get(pokemon, query, FALSE))
    ELSE IF query \in {"legendary", "mythical"}
    THEN _truthy(get(pokemon, query, FALSE))
    ELSE IF query \in {"male", "female"}
    THEN lower(get(pokemon, "gender", "")) = query
    ELSE IF query = "genderunknown"
    THEN lower(get(pokemon, "gender", "")) \notin {"male", "female"}
    ELSE IF query \in {"xxs", "xs", "xl", "xxl"}
    THEN \/ lower(get(pokemon, "height_label", "")) = query
         \/ lower(get(pokemon, "weight_label", "")) = query
    ELSE IF query \in TYPE_KEYWORDS
    THEN in_list(query, get(pokemon, "types", <<>>))
    ELSE IF query = "costume"
    THEN get(pokemon, "costume", "") # ""
    ELSE IF query = "shundo" THEN get(pokemon, "shundo", FALSE) = TRUE
    ELSE IF query = "nundo" THEN get(pokemon, "nundo", FALSE) = TRUE
    ELSE IF query \in {"gigantamax", "gmax"} THEN _is_gigantamax(pokemon)
    ELSE IF query = "dynamax"
    THEN _is_dynamax_only(pokemon) \/ _is_gigantamax(pokemon)
    ELSE IF query = "background" THEN _has_special_background(pokemon)
    ELSE \/ contains(lower(get(pokemon, "name", "")), query)
         \/ contains(lower(get(pokemon, "form", "")), query)
         \/ contains(lower(get(pokemon, "search_text", "")), query)

\* the field holds None: the record lists in "null" the fields that are
\* present with the value None (the field itself then holds a value that no
\* predicate matches)
is_null(p, k) == k \in get(p, "null", {})

\* match_range raises TypeError: the bounds were parsed and None is compared
\* with <= or >= (None == N is False and raises nothing)
range_raises(q, parts, p, k) ==
    /\ is_null(p, k)
    /\ has_char(q, {"-"})
    /\ IF startswith(q, "-") THEN is_int(parts[2])
       ELSE IF endswith(q, "-") THEN is_int(parts[1])
       ELSE is_int(parts[1]) /\ (parts[2] # "" => is_int(parts[2]))

\* match_range(query, prefix, pokemon.get(k, 0)) raises
match_range_raises(query, prefix, p, k) ==
    range_raises(SubSeq(query, Len(prefix) + 1, Len(query)),
                 split(SubSeq(query, Len(prefix) + 1, Len(query)), {"-"}), p, k)

\* the body of the loop of apply_search_filter raises for one record:
\* None.lower() (AttributeError), "x in None" or a comparison with None
\* (TypeError); nothing in the function catches them
atom_raises(pokemon, query) ==
    IF query = "apex" THEN FALSE
    ELSE IF startswith(query, "+") THEN is_null(pokemon, "family")
    ELSE IF startswith(query, "cp") THEN match_range_raises(query, "cp", pokemon, "cp")
    ELSE IF startswith(query, "hp") THEN match_range_raises(query, "hp", pokemon, "hp")
    ELSE IF startswith(query, "atk")
    THEN match_range_raises(query, "atk", pokemon, "attack")
    ELSE IF startswith(query, "def")
    THEN match_range_raises(query, "def", pokemon, "defence")
    ELSE IF startswith(query, "stm")
    THEN match_range_raises(query, "stm", pokemon, "stamina")
    ELSE IF is_number_query(query)
    THEN match_range_raises(query, "", pokemon, "number")
    ELSE IF is_star_query(query) THEN FALSE
    ELSE IF query \in {"shiny", "shadow", "purified", "lucky", "legendary", "mythical"}
    THEN FALSE
    ELSE IF query \in {"male", "female", "genderunknown"} THEN is_null(pokemon, "gender")
    ELSE IF query \in {"xxs", "xs", "xl", "xxl"}
    THEN \/ is_null(pokemon, "height_label")
         \/ /\ lower(get(pokemon, "height_label", "")) # query
            /\ is_null(pokemon, "weight_label")
    ELSE IF query \in TYPE_KEYWORDS THEN is_null(pokemon, "types")
    ELSE IF query \in {"costume", "shundo", "nundo", "gigantamax", "gmax", "dynamax",
                       "background"}
    THEN FALSE
    ELSE is_null(pokemon, "name") \/ is_null(pokemon, "search_text")

(***************************************************************************)
(* apply_search_filter.                                                    *)
(***************************************************************************)
\* a slip: "results.extend(part_results)", the parts' results not deduplicated
add_all(res, part_results) == res \o part_results

RECURSIVE add_unique(_, _)
\* "for p in part_results: if p not in results: results.append(p)"
add_unique(res, part_results) ==
    IF part_results = <<>> THEN res
    ELSE add_unique(IF in_list(Head(part_results), res) THEN res
                    ELSE Append(res, Head(part_results)),
                    Tail(part_results))

\* a slip: the "not" of the comprehension forgotten
only_matching(lst, matching) ==
    SelectSeq(lst, LAMBDA p : in_list(p, matching))

\* "[p for p in pokemon_list if p not in matching]"
not_matching(lst, matching) ==
    SelectSeq(lst, LAMBDA p : ~in_list(p, matching))

\* the loop over the records for an atomic predicate
filter_atom(lst, query) ==
    SelectSeq(lst, LAMBDA p : atom_match(p, query))

\* a slip: "&" looked for before "," and ";"
query_kind_and_first(query) ==
    IF has_char(query, {"&"}) THEN "and"
    ELSE IF has_char(query, {",", ";"}) THEN "or"
    ELSE IF startswith(query, "!") THEN "not"
    ELSE "atom"

\* the order in which the operators are looked for: "or", "and", "not", "atom"
query_kind(query) ==
    IF has_char(query, {",", ";"}) THEN "or"
    ELSE IF has_char(query, {"&"}) THEN "and"
    ELSE IF startswith(query, "!") THEN "not"
    ELSE "atom"

RECURSIVE apply_search_filter(_, _)
RECURSIVE or_results(_, _, _)
RECURSIVE and_results(_, _)

\* the loop over or_parts: each part is evaluated on the whole input list
or_results(lst, or_parts, res) ==
    IF or_parts = <<>> THEN res
    ELSE or_results(lst, Tail(or_parts),
                    add_unique(res, apply_search_filter(lst, strip(Head(or_parts)))))

\* a slip: each AND part evaluated on the whole list and the results merged
and_as_union(res, and_parts) == or_results(res, and_parts, <<>>)

\* a slip: "return" inside the loop, so that only the first part is applied
and_first_only(res, and_parts) ==
    IF and_parts = <<>> THEN res
    ELSE apply_search_filter(res, strip(Head(and_parts)))

\* the loop over and_parts: each part is evaluated on the previous part's result
and_results(res, and_parts) ==
    IF and_parts = <<>> THEN res
    ELSE and_results(apply_search_filter(res, strip(Head(and_parts))), Tail(and_parts))

apply_search_filter(lst, raw_query) ==
    LET query == lower(strip(raw_query))
        kind == query_kind(query)
    IN  IF query = "" THEN lst
        ELSE IF kind = "or" THEN or_results(lst, split(query, {",", ";"}), <<>>)
        ELSE IF kind = "and" THEN and_results(lst, split(query, {"&"}))
        ELSE IF kind = "not"
        THEN not_matching(lst, apply_search_filter(lst, SubSeq(query, 2, Len(query))))
        ELSE filter_atom(lst, query)

RECURSIVE filter_raises(_, _)
RECURSIVE and_raises(_, _)

\* the loop over and_parts raises: at a part, on the previous part's result
and_raises(res, and_parts) ==
    IF and_parts = <<>> THEN FALSE
    ELSE \/ filter_raises(res, strip(Head(and_parts)))
         \/ and_raises(apply_search_filter(res, strip(Head(and_parts))), Tail(and_parts))

\* apply_search_filter(lst, raw_query) raises instead of returning a list
filter_raises(lst, raw_query) ==
    LET query == lower(strip(raw_query))
        kind == query_kind(query)
    IN  IF query = "" THEN FALSE
        ELSE IF kind = "or"
        THEN \E i \in 1..Len(split(query, {",", ";"})) :
                 filter_raises(lst, strip(split(query, {",", ";"})[i]))
        ELSE IF kind = "and" THEN and_raises(lst, split(query, {"&"}))
        ELSE IF kind = "not" THEN filter_raises(lst, SubSeq(query, 2, Len(query)))
        ELSE \E i \in 1..Len(lst) : atom_raises(lst[i], query)

\* what a request leaves: the list returned, or nothing when the call raised
filter_outcome(lst, raw_query, phase) ==
    IF filter_raises(lst, raw_query)
    THEN [fphase |-> "raised", results |-> <<>>]
    ELSE [fphase |-> phase, results |-> apply_search_filter(lst, raw_query)]

(***************************************************************************)
(* The records and the queries of the filter's requests.                  *)
(***************************************************************************)
\* a record as enrich_pokemon builds it (the fields the filter reads)
Mon(number, name, types, shiny, legendary, mythic, cp, family) ==
    [number |-> number, name |-> name, form |-> "", types |-> types,
     shiny |-> shiny, lucky |-> FALSE, shadow |-> FALSE, purified |-> FALSE,
     legendary |-> legendary, mythic |-> mythic, apex |-> FALSE,
     cp |-> cp, hp |-> 100, attack |-> 15, defence |-> 15, stamina |-> 15,
     iv_tier |-> "4*", gender |-> "male", family |-> family,
     search_text |-> lower(lower(name) \o " " \o str(number) \o " " \o join(" ", types))]

\* a record of a species that master.json does not hold (no family, no
\* types), uploaded with "cp": null
MonOutsideMaster ==
    [null |-> {"family", "cp"}]
    @@ Mon(152, "Chikorita", <<>>, TRUE, FALSE, FALSE, -1, "")

FilterMons ==
    { [Mon(148, "Dragonair", <<"dragon">>, FALSE, FALSE, FALSE, 1200, "FAMILY_DRATINI")
          EXCEPT !.lucky = TRUE],
      [Mon(149, "Dragonite", <<"dragon", "flying">>, TRUE, FALSE, FALSE, 1500,
           "FAMILY_DRATINI") EXCEPT !.purified = TRUE],
      [Mon(150, "Mewtwo", <<"psychic">>, FALSE, TRUE, FALSE, 2500, "FAMILY_MEWTWO")
          EXCEPT !.shadow = TRUE],
      Mon(151, "Mew", <<"psychic">>, TRUE, FALSE, TRUE, 1500, "FAMILY_MEW"),
      MonOutsideMaster }

RECURSIVE ListsUpTo(_, _)
\* the lists of at most n elements of S
ListsUpTo(S, n) ==
    IF n = 0 THEN {<<>>}
    ELSE LET shorter == ListsUpTo(S, n - 1)
         IN  shorter \cup {Append(l, x) : l \in {m \in shorter : Len(m) = n - 1}, x \in S}

\* the four forms of the range grammar for a prefix, a field and bounds N, M:
\* the text, and the bounds it stands for (lo or hi absent: unbounded)
RangeForms(prefix, field, bounds) ==
    {[text |-> prefix \o str(n), field |-> field, lo |-> {n}, hi |-> {n}] : n \in bounds}
    \cup {[text |-> prefix \o str(n) \o "-", field |-> field, lo |-> {n}, hi |-> {}] :
             n \in bounds}
    \cup {[text |-> prefix \o "-" \o str(n), field |-> field, lo |-> {}, hi |-> {n}] :
             n \in bounds}
    \cup {[text |-> prefix \o str(n) \o "-" \o str(m), field |-> field,
           lo |-> {n}, hi |-> {m}] : n \in bounds, m \in bounds}

\* range queries on the CP and on the species number
RangeQueries ==
    RangeForms("cp", "cp", {1200, 1500}) \cup RangeForms("", "number", {150, 151})

\* the species numbers 149, 150, 151, 152 in this order
RangeExample == [i \in 1..4 |-> CHOOSE p \in FilterMons : p.number = 148 + i]

\* atomic predicates of the requests
Atoms == {"shiny", "dragon", "150-151", "mew"}

\* the query texts of the requests
Queries ==
    Atoms
    \cup {"", " ", "!", "Shiny", " dragon ", "!!shiny", "shiny,", "&mew", "+dratini",
          "cp1500", "cp-1500", "cp1500-", "cp1x", "150-", "-150", "legendary", "mythical",
          "shadow", "purified", "lucky",
          "shiny , dragon", "! mew", "dragon&+dratini", "dragon&cp1500-", "male"}
    \cup {f.text : f \in RangeQueries}
    \cup {"!" \o a : a \in Atoms}
    \cup {a \o "&" \o b : a \in Atoms, b \in Atoms}
    \cup {a \o "," \o b : a \in Atoms, b \in Atoms}
    \cup {a \o ";" \o b : a \in Atoms, b \in Atoms}
    \cup {"!" \o a \o "&" \o b : a \in Atoms, b \in Atoms}
    \cup {"!" \o a \o "," \o b : a \in Atoms, b \in Atoms}
    \cup {a \o "&" \o b \o "," \o c : a \in Atoms, b \in Atoms, c \in {"shiny", "mew"}}

(***************************************************************************)
(* The filter's requests as a state machine.                               *)
(***************************************************************************)
\* the filter at rest (in the specifications of the other components)
IdleFilter ==
    /\ pokemon_list = <<>>
    /\ search_query = ""
    /\ results = <<>>
    /\ first_results = <<>>
    /\ fphase = "idle"

\* the top-spread finder at rest; the table plays no part in the filter
IdleTop ==
    /\ top_args = [base_atk |-> 0, base_def |-> 0, base_sta |-> 0, cp_cap |-> 0]
    /\ top_result = [raised |-> FALSE, value |-> <<>>]

\* no call of compute_best_teams yet
IdleTeams ==
    /\ team_args = [league |-> "", category |-> "", max_teams |-> 0, called |-> FALSE]
    /\ best_teams = <<>>

\* no upload request being served
NoUpload ==
    [pc |-> "idle", file_uuid |-> 0, user_id |-> "", filename |-> "", records |-> <<>>,
     idx |-> 0, enriched_data |-> 0]

\* the default reply of get_progress
NotFound == [current |-> 0, total |-> 0, status |-> "not_found"]

\* the upload component at rest (in the specifications of the other
\* components)
IdleUploads ==
    /\ ENRICHMENT_PROGRESS = <<>>
    /\ user_dir = <<>>
    /\ public_index = <<>>
    /\ upload = NoUpload
    /\ responses = <<>>
    /\ progress_reply = NotFound

\* None
NONE == [none |-> TRUE]

\* no call made yet
NoCall ==
    [op |-> "none", idx |-> 0, league |-> "", category |-> "", threshold |-> 0,
     top_n |-> 0, prefix |-> "", ret |-> "none", stage |-> "none",
     entry |-> NONE, before |-> NONE]

\* the ranking index and the annotator at rest
IdlePvp ==
    /\ ranking_files = <<>>
    /\ PVP_RANKINGS_CACHE = <<>>
    /\ PVP_PREFIX_BEST_CACHE = <<>>
    /\ PVP_TOP10_IV_CACHE = <<>>
    /\ pool = <<>>
    /\ last = NoCall
    /\ ncalls = 0

InitFilter ==
    /\ CPM_INT = <<>>
    /\ IdleTop
    /\ IdlePvp
    /\ IdleTeams
    /\ IdleUploads
    /\ pokemon_list \in ListsUpTo(FilterMons, MaxList) \cup {RangeExample}
    /\ search_query = ""
    /\ results = <<>>
    /\ first_results = <<>>
    /\ fphase = "idle"

\* a request: apply_search_filter(pokemon_list, q)
Search(q) ==
    /\ fphase = "idle"
    /\ search_query' = q
    /\ \E r \in {filter_outcome(pokemon_list, q, "filtered")} :
           /\ results' = r.results
           /\ fphase' = r.fphase
    /\ first_results' = results'
    /\ UNCHANGED <<pokemon_list, CPM_INT, top_vars, pvp_vars, team_vars, upload_vars>>

\* the same query applied to the list the first application returned
SearchAgain ==
    /\ fphase = "filtered"
    /\ \E r \in {filter_outcome(results, search_query, "refiltered")} :
           /\ results' = r.results
           /\ fphase' = r.fphase
    /\ UNCHANGED <<pokemon_list, search_query, first_results, CPM_INT, top_vars, pvp_vars,
                   team_vars, upload_vars>>

\* the negated query, "!" + query, applied to the same collection
SearchNegated ==
    /\ fphase = "filtered"
    /\ \E r \in {filter_outcome(pokemon_list, "!" \o search_query, "negated")} :
           /\ results' = r.results
           /\ fphase' = r.fphase
    /\ UNCHANGED <<pokemon_list, search_query, first_results, CPM_INT, top_vars, pvp_vars,
                   team_vars, upload_vars>>

NextFilter ==
    \/ \E q \in Queries : Search(q)
    \/ SearchAgain
    \/ SearchNegated

SpecFilter == InitFilter /\ [][NextFilter]_vars

(***************************************************************************)
(* Claims about the search filter (checked under SpecFilter).              *)
(***************************************************************************)
\* the elements of a list, as a set
Elems(lst) == {lst[i] : i \in 1..Len(lst)}

\* lst with the records of removed taken out
ListMinus(lst, removed) == SelectSeq(lst, LAMBDA p : p \notin Elems(removed))

\* sub is lst with some positions deleted (same relative order)
IsSubSequence(sub, lst) ==
    \E pos \in [1..Len(sub) -> 1..Len(lst)] :
        /\ \A i \in 1..Len(sub) : lst[pos[i]] = sub[i]
        /\ \A i \in 1..(Len(sub) - 1) : pos[i] < pos[i + 1]

HasOperator(query, chars) == has_char(query, chars)

\* C7 as stated: for any list L and ANY predicate text P, filter(L, "!" + P)
\* is L with the records of filter(L, P) removed.
C7_ComplementAnyText ==
    fphase = "negated" => results = ListMinus(pokemon_list, first_results)

\* C7 amended: for any list L and any predicate text P that holds none of the
\* operators "," ";" "&", filter(L, "!" + P) is L with the records of
\* filter(L, P) removed.
C7_ComplementOfAtomicText ==
    (fphase = "negated" /\ ~HasOperator(search_query, {",", ";", "&"}))
        => results = ListMinus(pokemon_list, first_results)

C7_Witness ==
    /\ fphase = "negated"
    /\ ~HasOperator(search_query, {",", ";", "&"})
    /\ first_results # <<>>
    /\ results # <<>>

\* C8: idempotence: for any list L and any predicate text P (atomic or built
\* with , ; & !), filter(filter(L, P), P) = filter(L, P) as a list.
C8_Idempotent ==
    fphase = "refiltered" => results = first_results

C8_Witness ==
    /\ fphase = "refiltered"
    /\ HasOperator(search_query, {",", ";"})
    /\ HasOperator(search_query, {"&", "!"})
    /\ Len(first_results) = 2
    /\ first_results # pokemon_list

\* C9 as stated: for every list L and every query q, filter(L, q) is a
\* sub-sequence of L.
C9_SubSequenceAnyQuery ==
    fphase = "filtered" => IsSubSequence(results, pokemon_list)

\* C9 amended: for every list L and every query q each returned record is a
\* record of L, and when q holds no "," or ";" the returned records appear in
\* the same relative order as in L (filter(L, q) is a sub-sequence of L).
C9_SubSequenceWithoutOr ==
    fphase = "filtered" =>
        /\ Elems(results) \subseteq Elems(pokemon_list)
        /\ ~HasOperator(search_query, {",", ";"}) => IsSubSequence(results, pokemon_list)

C9_Witness ==
    /\ fphase = "filtered"
    /\ HasOperator(search_query, {"&"})
    /\ ~HasOperator(search_query, {",", ";"})
    /\ Len(pokemon_list) = 2
    /\ Len(results) = 2
    /\ pokemon_list[1] # pokemon_list[2]

\* C10: precedence OR < AND < NOT < atom: "a&b,c" selects (a AND b) OR c,
\* "!a&b" selects (NOT a) AND b, "!a,b" selects (NOT a) OR b.
C10_Precedence ==
    fphase = "filtered" =>
        \A a \in Atoms, b \in Atoms, c \in Atoms :
            /\ search_query = a \o "&" \o b \o "," \o c =>
                 Elems(results) = {p \in Elems(pokemon_list) :
                     (atom_match(p, a) /\ atom_match(p, b)) \/ atom_match(p, c)}
            /\ search_query = "!" \o a \o "&" \o b =>
                 Elems(results) = {p \in Elems(pokemon_list) :
                     ~atom_match(p, a) /\ atom_match(p, b)}
            /\ search_query = "!" \o a \o "," \o b =>
                 Elems(results) = {p \in Elems(pokemon_list) :
                     ~atom_match(p, a) \/ atom_match(p, b)}

\* "dragon&mew,shiny" on a shiny record that is no dragon: (a AND b) OR c keeps
\* it, a AND (b OR c) would not
C10_Witness ==
    /\ fphase = "filtered"
    /\ search_query = "dragon&mew,shiny"
    /\ \E p \in Elems(results) : ~atom_match(p, "dragon") /\ atom_match(p, "shiny")

\* the parts of an OR query, as the code cuts them
OrParts(raw_query) ==
    LET parts == split(lower(strip(raw_query)), {",", ";"})
    IN  [i \in 1..Len(parts) |-> strip(parts[i])]

\* the positions of lst whose record a part selects
PartPositions(lst, part) ==
    SelectSeq([i \in 1..Len(lst) |-> i],
              LAMBDA i : in_list(lst[i], apply_search_filter(lst, part)))

RECURSIVE UnionOfPositions(_, _, _)
\* the positions selected by at least one part, each once, in first-seen order
UnionOfPositions(lst, parts, seen) ==
    IF parts = <<>> THEN seen
    ELSE UnionOfPositions(lst, Tail(parts),
             seen \o SelectSeq(PartPositions(lst, Head(parts)),
                               LAMBDA i : ~in_list(i, seen)))

\* the union of the parts' results with a record being its position in lst
UnionByIdentity(lst, raw_query) ==
    LET pos == UnionOfPositions(lst, OrParts(raw_query), <<>>)
    IN  [k \in 1..Len(pos) |-> lst[pos[k]]]

\* C18: a request never raises, whatever the query and also for records
\* that lack a field or hold None in it; it returns a list
C18_NeverRaises == fphase # "raised"

\* a request over records none of which holds None in a field never raises,
\* and a numeric predicate that does not parse returns the empty list
C18_NoNullNeverRaises ==
    /\ (\A i \in 1..Len(pokemon_list) : get(pokemon_list[i], "null", {}) = {}) =>
           fphase # "raised"
    /\ (fphase = "filtered" /\ search_query = "cp1x") => results = <<>>

\* v is within the bounds a range query stands for
InRange(v, f) == (\A n \in f.lo : n <= v) /\ (\A m \in f.hi : v <= m)

\* C20: the range grammar: "<prefix>N" selects the records with v = N,
\* "<prefix>N-" those with v >= N, "<prefix>-N" those with v <= N and
\* "<prefix>N-M" those with N <= v <= M, for the CP with the prefix "cp" and
\* for the species number with no prefix; "150-151" over the species numbers
\* 149, 150, 151, 152 returns those of the numbers 150 and 151
C20_RangeGrammar ==
    fphase = "filtered" =>
        /\ \A f \in RangeQueries :
               search_query = f.text =>
                   results = SelectSeq(pokemon_list,
                                       LAMBDA p : InRange(get(p, f.field, 0), f))
        /\ (search_query = "150-151" /\ pokemon_list = RangeExample) =>
               results = SubSeq(RangeExample, 2, 3)

\* "150-151" was asked over the species numbers 149, 150, 151, 152
C20_Witness ==
    /\ fphase = "filtered"
    /\ search_query = "150-151"
    /\ pokemon_list = RangeExample
    /\ Len(results) = 2

\* C11: for a query with "," or ";" the result is the union of the parts'
\* results, deduplicated by record identity: every record of the input that
\* a part selects is returned as often as it is in the input (two records
\* with equal contents are both kept), in first-seen order across the parts.
C11_UnionByIdentity ==
    (fphase = "filtered" /\ HasOperator(search_query, {",", ";"}))
        => results = UnionByIdentity(pokemon_list, search_query)

\* the same for the collections whose records differ pairwise in contents
C11_UnionOfDifferentRecords ==
    (/\ fphase = "filtered"
     /\ HasOperator(search_query, {",", ";"})
     /\ \A i, j \in 1..Len(pokemon_list) : pokemon_list[i] = pokemon_list[j] => i = j)
        => results = UnionByIdentity(pokemon_list, search_query)

\* the records of lst that are in both a and b
InBoth(lst, a, b) == SelectSeq(lst, LAMBDA p : in_list(p, a) /\ in_list(p, b))

\* C12: for atomic A and B, filter(L, "A&B") is exactly the records of L that
\* are in filter(L, A) and in filter(L, B), and equals filter(L, "B&A").
C12_AndIsIntersection ==
    fphase = "filtered" =>
        \A a \in Atoms, b \in Atoms :
            search_query = a \o "&" \o b =>
                /\ results = InBoth(pokemon_list,
                                    apply_search_filter(pokemon_list, a),
                                    apply_search_filter(pokemon_list, b))
                /\ results = apply_search_filter(pokemon_list, b \o "&" \o a)

\* "shiny&dragon" on a shiny dragon and a record that is only one of the two
C12_Witness ==
    /\ fphase = "filtered"
    /\ search_query = "shiny&dragon"
    /\ Len(pokemon_list) = 2
    /\ Len(results) = 1
    /\ results[1].shiny = TRUE
    /\ in_list("dragon", results[1].types)
    /\ \E p \in Elems(pokemon_list) : p.shiny = TRUE /\ ~in_list("dragon", p.types)

(***************************************************************************)
(* The level-multiplier table and the stat model.                          *)
(*                                                                         *)
(* Numbers.  The code computes with floats; the model computes the same    *)
(* real-number formulas exactly, in integers:                              *)
(*   - CPM_INT[L] holds the SQUARE of level L's multiplier (an integer);   *)
(*     the table of the code, {i + 1: v for i, v in enumerate(list)}, is   *)
(*     the sequence of its values, so its levels are 1..Len(CPM_INT);      *)
(*   - get_cpm returns TWICE the squared multiplier, which makes the       *)
(*     half-level interpolation sqrt((a^2 + b^2)/2) the integer a2 + b2;   *)
(*   - a level is held as TWICE its value: the ladder 1.0, 1.5, ... is     *)
(*     2, 3, ..., and the half-levels are the odd numbers;                 *)
(*   - with c2 = 2*cpm^2:  CP = floor(cpm^2 * A * sqrt(D*S) / 10)          *)
(*     = floor(sqrt(c2^2 * A^2 * D * S) / 20),  hp = floor(S * cpm)        *)
(*     = floor(sqrt(S^2 * c2 / 2)),  and the stat product atk*def*hp       *)
(*     = A * D * hp * c2 / 2, held as the integer A * D * hp * c2.         *)
(* Float rounding is not modelled.                                         *)
(***************************************************************************)
RECURSIVE isqrt_between(_, _, _)
isqrt_between(n, lo, hi) ==
    IF lo = hi THEN lo
    ELSE LET mid == (lo + hi + 1) \div 2
         IN  IF mid * mid <= n THEN isqrt_between(n, mid, hi)
             ELSE isqrt_between(n, lo, mid - 1)

\* floor(sqrt(n)), 0 <= n < 2^31
isqrt(n) == isqrt_between(n, 0, 46340)

\* "if not CPM_INT: raise RuntimeError(...)"
cpm_unavailable == CPM_INT = <<>>

\* CPM_INT.get(level, 0.0)
cpm_int_get(level) == IF level \in 1..Len(CPM_INT) THEN CPM_INT[level] ELSE 0

\* a slip: the half-level taken as a^2 + 2*b^2, above its upper neighbour
get_cpm_half_above(level2) ==
    IF level2 % 2 = 0 THEN 2 * cpm_int_get(level2 \div 2)
    ELSE IF cpm_int_get(level2 \div 2) = 0 \/ cpm_int_get((level2 \div 2) + 1) = 0 THEN 0
    ELSE cpm_int_get(level2 \div 2) + 2 * cpm_int_get((level2 \div 2) + 1)

\* get_cpm(level), for a loaded table: level2 is twice the level, the result
\* twice the squared multiplier (0 when the level or a neighbour is missing)
get_cpm(level2) ==
    IF level2 % 2 = 0 THEN 2 * cpm_int_get(level2 \div 2)
    ELSE LET base == level2 \div 2
             a == cpm_int_get(base)
             b == cpm_int_get(base + 1)
         IN  IF a = 0 \/ b = 0 THEN 0 ELSE a + b

\* calc_cp: max(10, floor(atk * sqrt(def) * sqrt(sta) / 10))
calc_cp(base_atk, base_def, base_sta, iv_atk, iv_def, iv_sta, cpm) ==
    LET a == base_atk + iv_atk
        d == base_def + iv_def
        t == base_sta + iv_sta
        cp == isqrt(cpm * cpm * a * a * d * t) \div 20
    IN  IF cp < 10 THEN 10 ELSE cp

\* calc_stats: hp = floor(sta * cpm) and product = atk * def * hp (here times 2)
calc_stats(base_atk, base_def, base_sta, iv_atk, iv_def, iv_sta, cpm) ==
    LET a == base_atk + iv_atk
        d == base_def + iv_def
        t == base_sta + iv_sta
        hp == isqrt((t * t * cpm) \div 2)
    IN  [hp |-> hp, product |-> a * d * hp * cpm]

\* PVP_LEVELS = [x / 2 for x in range(2, 103)], as twice the levels
PVP_LEVELS == 2..(2 * MaxLevel)

\* max_level = 51.0, as twice the level
max_level == 2 * MaxLevel

RECURSIVE scan_levels(_, _, _, _, _, _, _, _)
\* "for lv in reversed(PVP_LEVELS)": the first level, going down from lv, whose
\* multiplier is present and whose CP is within the cap; 0 stands for None
scan_levels(base_atk, base_def, base_sta, iva, ivd, ivs, cp_cap, lv) ==
    IF lv \notin PVP_LEVELS THEN 0
    ELSE IF /\ get_cpm(lv) # 0
            /\ calc_cp(base_atk, base_def, base_sta, iva, ivd, ivs, get_cpm(lv)) <= cp_cap
    THEN lv
    ELSE scan_levels(base_atk, base_def, base_sta, iva, ivd, ivs, cp_cap, lv - 1)

\* a slip: "for lv in PVP_LEVELS", the ladder walked upwards, so that the scan
\* stops at the lowest level within the cap
best_level_lowest(base_atk, base_def, base_sta, iva, ivd, ivs, cp_cap) ==
    IF calc_cp(base_atk, base_def, base_sta, iva, ivd, ivs, get_cpm(max_level)) <= cp_cap
    THEN max_level
    ELSE LET ok == {lv \in PVP_LEVELS :
                     /\ get_cpm(lv) # 0
                     /\ calc_cp(base_atk, base_def, base_sta, iva, ivd, ivs, get_cpm(lv))
                            <= cp_cap}
         IN  IF ok = {} THEN 0 ELSE CHOOSE lv \in ok : \A o \in ok : lv <= o

\* the level compute_top10_ivs picks for one IV triple (0 for None)
best_level(base_atk, base_def, base_sta, iva, ivd, ivs, cp_cap) ==
    IF calc_cp(base_atk, base_def, base_sta, iva, ivd, ivs, get_cpm(max_level)) <= cp_cap
    THEN max_level
    ELSE scan_levels(base_atk, base_def, base_sta, iva, ivd, ivs, cp_cap, max_level)

\* the dict appended to results for one IV triple and its level
spread(base_atk, base_def, base_sta, iva, ivd, ivs, level) ==
    LET cpm == get_cpm(level)
        st == calc_stats(base_atk, base_def, base_sta, iva, ivd, ivs, cpm)
    IN  [atk_iv |-> iva, def_iv |-> ivd, stm_iv |-> ivs, level |-> level,
         cp |-> calc_cp(base_atk, base_def, base_sta, iva, ivd, ivs, cpm),
         product |-> st.product, hp |-> st.hp]

\* range(16)
IVS == 0..MaxIV

\* a slip: the attack IV negated like the other keys (attack descending)
sort_key_atk_desc(r) == <<-r.product, -r.level, -r.atk_iv, -r.def_iv, -r.stm_iv>>

\* the sort key: (-product, -level, atk_iv, -def_iv, -stm_iv)
sort_key(r) == <<-r.product, -r.level, r.atk_iv, -r.def_iv, -r.stm_iv>>

RECURSIVE tuple_less(_, _)
\* Python's "<" on tuples of numbers of the same length
tuple_less(x, y) ==
    IF x = <<>> THEN FALSE
    ELSE IF Head(x) # Head(y) THEN Head(x) < Head(y)
    ELSE tuple_less(Tail(x), Tail(y))

RECURSIVE insert_sorted(_, _)
\* r put into the sorted list lst, after the elements whose key is not larger
insert_sorted(lst, r) ==
    IF lst = <<>> THEN <<r>>
    ELSE IF tuple_less(sort_key(r), sort_key(Head(lst))) THEN <<r>> \o lst
    ELSE <<Head(lst)>> \o insert_sorted(Tail(lst), r)

RECURSIVE sort_results(_)
\* results.sort(key=...): a stable sort
sort_results(lst) ==
    IF lst = <<>> THEN <<>>
    ELSE insert_sorted(sort_results(SubSeq(lst, 1, Len(lst) - 1)), lst[Len(lst)])

\* the IV triples in the order of the three nested loops
iv_triples ==
    [k \in 1..((MaxIV + 1) * (MaxIV + 1) * (MaxIV + 1)) |->
        <<(k - 1) \div ((MaxIV + 1) * (MaxIV + 1)),
          ((k - 1) \div (MaxIV + 1)) % (MaxIV + 1),
          (k - 1) % (MaxIV + 1)>>]

RECURSIVE collect_results(_, _, _, _, _)
\* the three nested loops: the spreads of the triples k.. that have a level
collect_results(base_atk, base_def, base_sta, cp_cap, k) ==
    IF k > Len(iv_triples) THEN <<>>
    ELSE LET iv == iv_triples[k]
             level == best_level(base_atk, base_def, base_sta, iv[1], iv[2], iv[3], cp_cap)
             rest == collect_results(base_atk, base_def, base_sta, cp_cap, k + 1)
         IN  IF level = 0 THEN rest
             ELSE <<spread(base_atk, base_def, base_sta, iv[1], iv[2], iv[3], level)>> \o rest

\* results[:n]
take(lst, n) == SubSeq(lst, 1, IF Len(lst) < n THEN Len(lst) ELSE n)

\* the length of the returned list: results[:10]
TOP_LEN == 10

\* compute_top10_ivs: [raised |-> the RuntimeError of get_cpm, value |-> the list]
compute_top10_ivs(base_atk, base_def, base_sta, cp_cap) ==
    IF base_atk <= 0 \/ base_def <= 0 \/ base_sta <= 0
    THEN [raised |-> FALSE, value |-> <<>>]
    ELSE IF cpm_unavailable
    THEN [raised |-> TRUE, value |-> <<>>]
    ELSE [raised |-> FALSE,
          value |-> take(sort_results(
                        collect_results(base_atk, base_def, base_sta, cp_cap, 1)), TOP_LEN)]

(***************************************************************************)
(* The inputs of the top-spread finder.                                    *)
(***************************************************************************)
\* level-multiplier tables (squared multipliers), complete ones: rising by a
\* fixed step to the top level's value
FullTable(top, step) == [L \in 1..MaxLevel |-> top - step * (MaxLevel - L)]

CpmTables ==
    { FullTable(100, 15),      \* strictly increasing
      FullTable(80, 5),
      FullTable(60, 0),        \* flat
      <<55, 70>>,              \* fewer entries than levels
      <<>> }                   \* not loaded

\* base stats (attack, defence, stamina) of the species of the model
BaseStats == {<<10, 10, 10>>, <<13, 8, 9>>, <<8, 12, 12>>, <<0, 10, 10>>, <<10, 10, -1>>}

\* CP caps: the three league caps and some others
CpCaps == {5, 10, 400, 700, 1000, 1200, 1500, 2500, 10000}

InitTop ==
    /\ IdleFilter
    /\ IdlePvp
    /\ IdleTeams
    /\ IdleUploads
    /\ CPM_INT \in CpmTables
    /\ IdleTop

\* a call compute_top10_ivs(base_atk, base_def, base_sta, cp_cap), the one call
\* of a behaviour (the function reads nothing but its arguments and the table)
TopSpreads(base, cp_cap) ==
    /\ top_args.cp_cap = 0
    /\ top_args' = [base_atk |-> base[1], base_def |-> base[2],
                    base_sta |-> base[3], cp_cap |-> cp_cap]
    /\ top_result' = compute_top10_ivs(base[1], base[2], base[3], cp_cap)
    /\ UNCHANGED <<filter_vars, CPM_INT, pvp_vars, team_vars, upload_vars>>

NextTop == \E base \in BaseStats, cp_cap \in CpCaps : TopSpreads(base, cp_cap)

SpecTop == InitTop /\ [][NextTop]_vars

(***************************************************************************)
(* Claims about the top-spread finder (checked under SpecTop).             *)
(***************************************************************************)
\* the call returned, with positive base stats
TopReturned ==
    /\ top_args.cp_cap # 0
    /\ ~top_result.raised
    /\ top_args.base_atk > 0 /\ top_args.base_def > 0 /\ top_args.base_sta > 0

\* the CP of an IV triple at a level of the ladder
CpAt(iv, lv) ==
    calc_cp(top_args.base_atk, top_args.base_def, top_args.base_sta,
            iv[1], iv[2], iv[3], get_cpm(lv))

\* the levels of the ladder at which the triple's CP is within the cap
LegalLevels(iv) == {lv \in PVP_LEVELS : CpAt(iv, lv) <= top_args.cp_cap}

HighestLegal(iv) == CHOOSE lv \in LegalLevels(iv) : \A o \in LegalLevels(iv) : lv >= o

\* the stat product (times 2) of a triple at a level
ProductAt(iv, lv) ==
    calc_stats(top_args.base_atk, top_args.base_def, top_args.base_sta,
               iv[1], iv[2], iv[3], get_cpm(lv)).product

\* the documented order: product descending, then level descending, then
\* atk_iv ascending, then def_iv descending, then stm_iv descending
SortsBefore(x, y) ==
    \/ x.product > y.product
    \/ x.product = y.product /\ x.level > y.level
    \/ x.product = y.product /\ x.level = y.level /\ x.atk_iv < y.atk_iv
    \/ x.product = y.product /\ x.level = y.level /\ x.atk_iv = y.atk_iv
          /\ x.def_iv > y.def_iv
    \/ x.product = y.product /\ x.level = y.level /\ x.atk_iv = y.atk_iv
          /\ x.def_iv = y.def_iv /\ x.stm_iv > y.stm_iv

ReturnedIVs == {<<top_result.value[i].atk_iv, top_result.value[i].def_iv,
                  top_result.value[i].stm_iv>> : i \in 1..Len(top_result.value)}

\* C4: for positive base stats and a cap >= 10, topSpreads returns at most 10
\* candidates, each before the next in the documented order (product
\* descending, ties by level descending, atk_iv ascending, def_iv descending,
\* stm_iv descending), and no IV triple left out of the list would sort before
\* a returned one (a triple is left out only when 10 are returned).
C4_TopTenInOrder ==
    (TopReturned /\ top_args.cp_cap >= 10) =>
        LET v == top_result.value IN
        /\ Len(v) <= 10
        /\ \A i \in 1..(Len(v) - 1) : SortsBefore(v[i], v[i + 1])
        /\ \A iv \in (IVS \X IVS \X IVS) \ ReturnedIVs :
              LegalLevels(iv) # {} =>
                  /\ Len(v) = 10
                  /\ \A i \in 1..Len(v) :
                        ~SortsBefore([atk_iv |-> iv[1], def_iv |-> iv[2], stm_iv |-> iv[3],
                                      level |-> HighestLegal(iv),
                                      product |-> ProductAt(iv, HighestLegal(iv))],
                                     v[i])

\* ten returned, two neighbours tied on product and level and ordered by the
\* attack IV, and the cap bites (some returned level is below the top)
C4_Witness ==
    /\ TopReturned /\ top_args.cp_cap >= 10
    /\ Len(top_result.value) = 10
    /\ \E i \in 1..9 :
          /\ top_result.value[i].product = top_result.value[i + 1].product
          /\ top_result.value[i].level = top_result.value[i + 1].level
          /\ top_result.value[i].atk_iv < top_result.value[i + 1].atk_iv
    /\ \E i \in 1..10 : top_result.value[i].level < max_level

\* C5: every returned candidate has a CP, computed at its own level, within
\* the cap, its level is the highest level of the ladder at which its IV
\* triple's CP is within the cap, and a triple with no such level is not
\* returned.
C5_HighestLevelWithinCap ==
    TopReturned =>
        LET v == top_result.value IN
        /\ \A i \in 1..Len(v) :
              LET iv == <<v[i].atk_iv, v[i].def_iv, v[i].stm_iv>> IN
              /\ v[i].level \in PVP_LEVELS
              /\ v[i].cp = CpAt(iv, v[i].level)
              /\ v[i].cp <= top_args.cp_cap
              /\ \A lv \in PVP_LEVELS : lv > v[i].level => CpAt(iv, lv) > top_args.cp_cap
        /\ \A iv \in IVS \X IVS \X IVS : LegalLevels(iv) = {} => iv \notin ReturnedIVs

\* a returned candidate below the top level, on a half-level, with legal levels
\* below its own
C5_Witness ==
    /\ TopReturned
    /\ \E i \in 1..Len(top_result.value) :
          /\ top_result.value[i].level < max_level
          /\ top_result.value[i].level % 2 = 1
          /\ top_result.value[i].level > 2

\* the table has an entry for every integer level and rises strictly
StrictlyIncreasing(table) ==
    /\ Len(table) = MaxLevel
    /\ table[1] > 0
    /\ \A L \in 1..(MaxLevel - 1) : table[L] < table[L + 1]

\* C21: with a multiplier table that rises strictly over the integer levels,
\* every half-level multiplier lies between its two integer neighbours, the
\* CP of fixed base stats and IVs never decreases along the ladder, and the
\* level picked with the top-level short-circuit is the level the downward
\* scan of the whole ladder picks
C21_CpMonotone ==
    (TopReturned /\ StrictlyIncreasing(CPM_INT)) =>
        /\ \A lv \in PVP_LEVELS :
               (lv % 2 = 1) => (get_cpm(lv - 1) <= get_cpm(lv) /\ get_cpm(lv) <= get_cpm(lv + 1))
        /\ \A iv \in IVS \X IVS \X IVS :
               /\ \A lv \in PVP_LEVELS :
                      lv < max_level => CpAt(iv, lv) <= CpAt(iv, lv + 1)
               /\ best_level(top_args.base_atk, top_args.base_def, top_args.base_sta,
                             iv[1], iv[2], iv[3], top_args.cp_cap)
                      = scan_levels(top_args.base_atk, top_args.base_def, top_args.base_sta,
                                    iv[1], iv[2], iv[3], top_args.cp_cap, max_level)

\* a call with a strictly rising table in which the short-circuit was taken
\* for one IV triple and the scan went below the top level for another
C21_Witness ==
    /\ TopReturned /\ StrictlyIncreasing(CPM_INT)
    /\ \E i, j \in 1..Len(top_result.value) :
           /\ top_result.value[i].level = max_level
           /\ top_result.value[j].level < max_level
    /\ \E iv \in IVS \X IVS \X IVS : \E lv \in PVP_LEVELS :
           lv < max_level /\ CpAt(iv, lv) < CpAt(iv, lv + 1)

\* C28: for every non-empty multiplier table, one with fewer entries than
\* levels included, every returned candidate has a non-zero multiplier at
\* its level and a positive stat product
C28_NoMissingMultiplier ==
    TopReturned =>
        \A i \in 1..Len(top_result.value) :
            /\ get_cpm(top_result.value[i].level) # 0
            /\ top_result.value[i].product > 0

\* with a multiplier for every integer level every returned candidate has a
\* non-zero multiplier at its level and a positive stat product; with no
\* multiplier for the top level every returned candidate sits at the top
\* level with the stat product 0
C28_MissingTopLevel ==
    TopReturned =>
        IF Len(CPM_INT) = MaxLevel
        THEN \A i \in 1..Len(top_result.value) :
                 /\ get_cpm(top_result.value[i].level) # 0
                 /\ top_result.value[i].product > 0
        ELSE \A i \in 1..Len(top_result.value) :
                 top_args.cp_cap >= 10 =>
                     /\ top_result.value[i].level = max_level
                     /\ top_result.value[i].product = 0

(***************************************************************************)
(* The ranking index.                                                      *)
(***************************************************************************)
\* PVP_LEAGUE_CAPS
PVP_LEAGUE_CAPS == [GL |-> 1500, UL |-> 2500, ML |-> 10000]

\* PVP_CATEGORIES: the category directories found at load time, with the
\* default category
PVP_CATEGORIES == {"little", "overall"}

\* "cat = (category or "overall").lower(); if cat not in PVP_CATEGORIES: ..."
norm_category(category) ==
    LET cat == lower(IF category = "" THEN "overall" ELSE category)
    IN  IF cat \in PVP_CATEGORIES THEN cat ELSE "overall"

\* _get_pvp_rankings: the list of <<cat, league>>, loaded once; a file that is
\* missing or holds no list gives the empty list
_get_pvp_rankings(category, league, rcache) ==
    LET key == <<norm_category(category), league>>
    IN  IF key \in DOMAIN rcache THEN [data |-> rcache[key], rcache |-> rcache]
        ELSE LET data == IF key \in DOMAIN ranking_files THEN ranking_files[key] ELSE <<>>
             IN  [data |-> data, rcache |-> rcache @@ (key :> data)]

\* int(e.get("rating", 0) or 0)
rating_of(e) == get(e, "rating", 0)

RECURSIVE scan_rankings(_, _, _, _, _, _)
\* the loop over the ranking list: the index of the best entry so far of the
\* exact, the boundary and the general-prefix bucket (0 for None); a later
\* entry replaces the best one only with a strictly higher rating
scan_rankings(data, prefix, idx, exact_best, boundary_best, prefix_best) ==
    IF idx > Len(data) THEN <<exact_best, boundary_best, prefix_best>>
    ELSE LET e == data[idx]
             sid == get(e, "speciesId", "")
             rating == rating_of(e)
             better(b) == b = 0 \/ rating > rating_of(data[b])
         IN  IF sid = ""
             THEN scan_rankings(data, prefix, idx + 1, exact_best, boundary_best, prefix_best)
             ELSE IF sid = prefix
             THEN scan_rankings(data, prefix, idx + 1,
                                IF better(exact_best) THEN idx ELSE exact_best,
                                boundary_best, prefix_best)
             ELSE IF startswith(sid, prefix \o "_")
             THEN scan_rankings(data, prefix, idx + 1, exact_best,
                                IF better(boundary_best) THEN idx ELSE boundary_best,
                                prefix_best)
             ELSE IF startswith(sid, prefix)
             THEN scan_rankings(data, prefix, idx + 1, exact_best, boundary_best,
                                IF better(prefix_best) THEN idx ELSE prefix_best)
             ELSE scan_rankings(data, prefix, idx + 1, exact_best, boundary_best, prefix_best)

choose_bucket_longest(bests) ==
    IF bests[3] # 0 THEN bests[3]
    ELSE IF bests[2] # 0 THEN bests[2]
    ELSE bests[1]

\* "chosen = exact_best or boundary_best or prefix_best" (0 for None)
choose_bucket(bests) ==
    IF bests[1] # 0 THEN bests[1]
    ELSE IF bests[2] # 0 THEN bests[2]
    ELSE bests[3]

\* a slip: the position counted from 0, as enumerate does without start=1
ranked_entry_from_zero(data, chosen) ==
    IF chosen = 0 THEN NONE ELSE [rank |-> chosen - 1] @@ data[chosen]

\* "best = dict(entry); best["rank"] = rank", or None when nothing was chosen
ranked_entry(data, chosen) ==
    IF chosen = 0 THEN NONE ELSE [rank |-> chosen] @@ data[chosen]

\* the search of the list on a cache miss, and "cache[prefix] = best"
search_rankings(key, prefix, pcache, loaded) ==
    [entry |-> ranked_entry(loaded.data,
                            choose_bucket(scan_rankings(loaded.data, prefix, 1, 0, 0, 0))),
     pcache |-> [pcache EXCEPT ![key] =
                    @ @@ (prefix :> ranked_entry(loaded.data,
                              choose_bucket(scan_rankings(loaded.data, prefix, 1, 0, 0, 0))))],
     rcache |-> loaded.rcache]

\* the body of best_ranking_entry_for_prefix for the normalised key and the
\* prefix cache after "PVP_PREFIX_BEST_CACHE.setdefault((cat, league), {})"
cached_or_search(key, prefix, pcache, rcache) ==
    IF prefix \in DOMAIN pcache[key]
    THEN [entry |-> pcache[key][prefix], pcache |-> pcache, rcache |-> rcache]
    ELSE search_rankings(key, prefix, pcache, _get_pvp_rankings(key[1], key[2], rcache))

\* dict.setdefault(key, {})
setdefault(cache, key) == IF key \in DOMAIN cache THEN cache ELSE cache @@ (key :> <<>>)

\* best_ranking_entry_for_prefix: the entry (or NONE) and the two caches after
\* the call
best_ranking_entry_for_prefix(category, league, prefix, pcache, rcache) ==
    cached_or_search(<<norm_category(category), league>>, prefix,
                     setdefault(pcache, <<norm_category(category), league>>), rcache)

(***************************************************************************)
(* pvp_prefix_candidates.                                                  *)
(***************************************************************************)
RECURSIVE replace_char(_, _, _)
\* s.replace(c, r) for a single character c
replace_char(s, c, r) ==
    IF Len(s) = 0 THEN ""
    ELSE (IF CharAt(s, 1) = c THEN r ELSE CharAt(s, 1))
             \o replace_char(SubSeq(s, 2, Len(s)), c, r)

\* SPECIAL_NAME_ALIASES
SPECIAL_NAME_ALIASES ==
    [k \in {"mr mime", "mr. mime", "mime jr", "mime jr.", "type: null", "farfetch'd",
            "farfetchd", "sirfetch'd", "sirfetchd"} |->
        CASE k \in {"mr mime", "mr. mime"} -> "mr._mime"
          [] k \in {"mime jr", "mime jr."} -> "mime_jr"
          [] k = "type: null" -> "type-null"
          [] k \in {"farfetch'd", "farfetchd"} -> "farfetchd"
          [] OTHER -> "sirfetchd"]

\* the end of slugify_species: the aliases, looked up by the plain and by the
\* slugged text
slug_of(s_plain, base) ==
    IF s_plain \in DOMAIN SPECIAL_NAME_ALIASES THEN SPECIAL_NAME_ALIASES[s_plain]
    ELSE IF base \in DOMAIN SPECIAL_NAME_ALIASES THEN SPECIAL_NAME_ALIASES[base]
    ELSE base

\* the characters slugify_species drops or replaces
slug_chars(s_plain) ==
    replace_char(replace_char(replace_char(s_plain, ".", ""), "'", ""), " ", "-")

\* slugify_species, for names without accents
slugify_species(name) ==
    IF name = "" THEN ""
    ELSE slug_of(lower(strip(name)), slug_chars(lower(strip(name))))

\* _normalize_form_suffix_token
_normalize_form_suffix_token(tok) ==
    LET t == upper(tok) IN
    IF t \in {"ALOLA", "ALOLAN"} THEN "alolan"
    ELSE IF t \in {"GALAR", "GALARIAN"} THEN "galarian"
    ELSE IF t \in {"HISUI", "HISUIAN"} THEN "hisuian"
    ELSE IF t \in {"PALDEA", "PALDEAN"} THEN "paldean"
    ELSE lower(tok)

RECURSIVE dedup(_, _)
\* "remove empties and duplicates while preserving order"
dedup(lst, seen) ==
    IF lst = <<>> THEN <<>>
    ELSE IF Head(lst) = "" \/ in_list(Head(lst), seen) THEN dedup(Tail(lst), seen)
    ELSE <<Head(lst)>> \o dedup(Tail(lst), Append(seen, Head(lst)))

\* "Derive base id from form when possible"
prefix_base(form, name) ==
    IF form # ""
    THEN IF startswith(form, "MR_MIME_") THEN "mr_mime"
         ELSE IF startswith(form, "HO_OH_") THEN "ho_oh"
         ELSE IF startswith(form, "PORYGON_Z_") THEN "porygon_z"
         ELSE lower(split(form, {"_"})[1])
    ELSE replace_char(slugify_species(name), "-", "_")

\* "_".join(_normalize_form_suffix_token(t) for t in rem_tokens)
normalized_remainder(rem_tokens) ==
    join("_", [i \in 1..Len(rem_tokens) |-> _normalize_form_suffix_token(rem_tokens[i])])

\* 1) the identifier derived from the full form
full_form_candidate(form, base, remainder) ==
    IF /\ form # "" /\ base # ""
       /\ startswith(form, upper(base) \o "_")
       /\ remainder # "" /\ remainder # "NORMAL"
       /\ normalized_remainder(SelectSeq(split(remainder, {"_"}), LAMBDA t : t # "")) # ""
    THEN <<base \o "_" \o
           normalized_remainder(SelectSeq(split(remainder, {"_"}), LAMBDA t : t # ""))>>
    ELSE <<>>

\* 2) the regional shorthands
regional_candidates(form, base) ==
    (IF contains(form, "ALOLA") THEN <<base \o "_alolan">> ELSE <<>>)
    \o (IF contains(form, "GALAR") THEN <<base \o "_galarian">> ELSE <<>>)
    \o (IF contains(form, "HISUI") THEN <<base \o "_hisuian">> ELSE <<>>)
    \o (IF contains(form, "PALDEA") THEN <<base \o "_paldean">> ELSE <<>>)

\* the shadow identifiers first, then the plain ones
with_shadow(candidates, shadow) ==
    (IF shadow = TRUE
     THEN [i \in 1..Len(candidates) |-> candidates[i] \o "_shadow"]
     ELSE <<>>) \o candidates

\* the candidates of a form and its base identifier
candidates_of(form, base, shadow) ==
    dedup(with_shadow(full_form_candidate(form, base, SubSeq(form, Len(base) + 2, Len(form)))
                        \o regional_candidates(form, base) \o <<base>>,
                      shadow),
          <<>>)

\* the candidates of an upper-cased form
candidates_of_form(form, name, shadow) ==
    candidates_of(form, prefix_base(form, name), shadow)

\* pvp_prefix_candidates: the identifiers tried for a record, in order
pvp_prefix_candidates(p) ==
    candidates_of_form(upper(get(p, "form", "")), get(p, "name", ""),
                       get(p, "shadow", FALSE))

(***************************************************************************)
(* pvp_match_and_annotate.  A record is a function from its keys to their  *)
(* values; a key whose value is None is a key that is not there, and the   *)
(* form None is the text "".                                               *)
(***************************************************************************)
abs(x) == IF x < 0 THEN -x ELSE x

max3(a, b, c) ==
    LET m == IF a < b THEN b ELSE a
    IN  IF m < c THEN c ELSE m

\* int() refuses nothing
int_never_fails(p, k) == FALSE

\* int(p[k]) raises: the record lists in "not_int" the fields whose value
\* int() refuses (a text such as "abc"); such a value is truthy
int_fails(p, k) == k \in get(p, "not_int", {})

\* int(p.get(k1) or p.get(k2) or 0) raises
base_fails(p, k1, k2) ==
    IF int_fails(p, k1) THEN TRUE
    ELSE IF get(p, k1, 0) # 0 THEN FALSE
    ELSE int_fails(p, k2)

\* p.get(k1) or p.get(k2) or 0
base_of(p, k1, k2) == IF get(p, k1, 0) # 0 THEN p[k1] ELSE get(p, k2, 0)

RECURSIVE find_ranked(_, _, _, _, _, _)
RECURSIVE ranked_or_next(_, _, _, _, _)
\* "if entry is not None: ... break", else on to the next candidate
ranked_or_next(prefixes, k, category, league, r) ==
    IF r.entry # NONE
    THEN [pref |-> prefixes[k], entry |-> r.entry, pcache |-> r.pcache, rcache |-> r.rcache]
    ELSE find_ranked(prefixes, k + 1, category, league, r.pcache, r.rcache)

\* "for pref in prefixes": the first candidate with a ranking entry, from the
\* k-th on
find_ranked(prefixes, k, category, league, pcache, rcache) ==
    IF k > Len(prefixes)
    THEN [pref |-> "", entry |-> NONE, pcache |-> pcache, rcache |-> rcache]
    ELSE ranked_or_next(prefixes, k, category, league,
                        best_ranking_entry_for_prefix(category, league, prefixes[k],
                                                      pcache, rcache))

spread_matches_any_axis(da, dd, ds, threshold) ==
    abs(da) <= threshold \/ abs(dd) <= threshold \/ abs(ds) <= threshold

\* "abs(da) <= threshold and abs(dd) <= threshold and abs(ds) <= threshold"
spread_matches(da, dd, ds, threshold) ==
    abs(da) <= threshold /\ abs(dd) <= threshold /\ abs(ds) <= threshold

RECURSIVE best_match_last_tie(_, _, _, _, _, _, _)
\* a slip: "score <= best["score"]", the latest of the equally close spreads
best_match_last_tie(top, idx, iva, ivd, ivs, threshold, best) ==
    IF idx > Len(top) THEN best
    ELSE LET cand == top[idx]
             da == iva - cand.atk_iv
             dd == ivd - cand.def_iv
             ds == ivs - cand.stm_iv
             score == <<max3(abs(da), abs(dd), abs(ds)), abs(da) + abs(dd) + abs(ds)>>
         IN  best_match_last_tie(top, idx + 1, iva, ivd, ivs, threshold,
                 IF /\ spread_matches(da, dd, ds, threshold)
                    /\ (best = NONE \/ ~tuple_less(best.score, score))
                 THEN [rank |-> idx, cand |-> cand, da |-> da, dd |-> dd, ds |-> ds,
                       score |-> score]
                 ELSE best)

RECURSIVE best_match(_, _, _, _, _, _, _)
\* the loop over the top list: the matching spread of the smallest score, the
\* earliest one among equals
best_match(top, idx, iva, ivd, ivs, threshold, best) ==
    IF idx > Len(top) THEN best
    ELSE LET cand == top[idx]
             da == iva - cand.atk_iv
             dd == ivd - cand.def_iv
             ds == ivs - cand.stm_iv
             score == <<max3(abs(da), abs(dd), abs(ds)), abs(da) + abs(dd) + abs(ds)>>
         IN  best_match(top, idx + 1, iva, ivd, ivs, threshold,
                 IF /\ spread_matches(da, dd, ds, threshold)
                    /\ (best = NONE \/ tuple_less(score, best.score))
                 THEN [rank |-> idx, cand |-> cand, da |-> da, dd |-> dd, ds |-> ds,
                       score |-> score]
                 ELSE best)

pvp_fields_without_category(best, top, best_prefix, best_rank_entry, league, category) ==
    [pvp_enabled |-> TRUE, pvp_league |-> league, pvp_rank_top10 |-> best.rank,
     pvp_distance_max |-> best.score[1], pvp_distance_sum |-> best.score[2],
     pvp_delta_atk |-> best.da, pvp_delta_def |-> best.dd, pvp_delta_stm |-> best.ds,
     pvp_meta_atk |-> best.cand.atk_iv, pvp_meta_def |-> best.cand.def_iv,
     pvp_meta_stm |-> best.cand.stm_iv, pvp_meta_level |-> best.cand.level,
     pvp_meta_cp |-> best.cand.cp,
     pvp_best_atk |-> top[1].atk_iv, pvp_best_def |-> top[1].def_iv,
     pvp_best_stm |-> top[1].stm_iv, pvp_best_level |-> top[1].level,
     pvp_best_cp |-> top[1].cp,
     pvp_species_prefix |-> best_prefix,
     pvp_species_id |-> best_rank_entry.speciesId,
     pvp_rating |-> best_rank_entry.rating,
     pvp_meta_rank |-> best_rank_entry.rank]

\* the assignments p["pvp_..."] = ... of a successful call
pvp_fields(best, top, best_prefix, best_rank_entry, league, category) ==
    [pvp_enabled |-> TRUE, pvp_league |-> league, pvp_rank_top10 |-> best.rank,
     pvp_distance_max |-> best.score[1], pvp_distance_sum |-> best.score[2],
     pvp_delta_atk |-> best.da, pvp_delta_def |-> best.dd, pvp_delta_stm |-> best.ds,
     pvp_meta_atk |-> best.cand.atk_iv, pvp_meta_def |-> best.cand.def_iv,
     pvp_meta_stm |-> best.cand.stm_iv, pvp_meta_level |-> best.cand.level,
     pvp_meta_cp |-> best.cand.cp,
     pvp_best_atk |-> top[1].atk_iv, pvp_best_def |-> top[1].def_iv,
     pvp_best_stm |-> top[1].stm_iv, pvp_best_level |-> top[1].level,
     pvp_best_cp |-> top[1].cp,
     pvp_species_prefix |-> best_prefix,
     pvp_species_id |-> best_rank_entry.speciesId,
     pvp_rating |-> best_rank_entry.rating,
     pvp_meta_rank |-> best_rank_entry.rank,
     pvp_category |-> lower(IF category = "" THEN "overall" ELSE category)]

annotate_before_check(p, best, top, best_prefix, best_rank_entry, league, category) ==
    IF best = NONE
    THEN [ret |-> "False", p |-> [pvp_enabled |-> TRUE, pvp_league |-> league] @@ p]
    ELSE [ret |-> "True",
          p |-> pvp_fields(best, top, best_prefix, best_rank_entry, league, category) @@ p]

\* "if best is None: return False" and the mutation of p that follows it
annotate(p, best, top, best_prefix, best_rank_entry, league, category) ==
    IF best = NONE
    THEN [ret |-> "False", p |-> p]
    ELSE [ret |-> "True",
          p |-> pvp_fields(best, top, best_prefix, best_rank_entry, league, category) @@ p]

\* lines 993-1045: the comparison with the top spreads and the annotation
match_top(p, league, category, threshold, top, found, tcache) ==
    IF top = <<>>
    THEN [ret |-> "False", stage |-> "top", p |-> p,
          pcache |-> found.pcache, rcache |-> found.rcache, tcache |-> tcache]
    ELSE [stage |-> "match", pcache |-> found.pcache, rcache |-> found.rcache,
          tcache |-> tcache]
         @@ annotate(p, best_match(top, 1, p.attack, p.defence, p.stamina, threshold, NONE),
                     top, found.pref, found.entry, league, category)

\* lines 988-991 on a cache miss: the list is stored, unless get_cpm raised
store_top(p, league, category, threshold, top_n, found, tcache, cache_key, computed) ==
    IF computed.raised
    THEN [ret |-> "RuntimeError", stage |-> "raise", p |-> p,
          pcache |-> found.pcache, rcache |-> found.rcache, tcache |-> tcache]
    ELSE match_top(p, league, category, threshold, take(computed.value, top_n), found,
                   tcache @@ (cache_key :> computed.value))

\* lines 986-993: the top spreads of the record's key, computed once per key
cached_top(p, league, category, threshold, top_n, found, tcache, cache_key) ==
    IF cache_key \in DOMAIN tcache
    THEN match_top(p, league, category, threshold, take(tcache[cache_key], top_n), found,
                   tcache)
    ELSE store_top(p, league, category, threshold, top_n, found, tcache, cache_key,
                   compute_top10_ivs(base_of(p, "base_attack", "base_atk"),
                                     base_of(p, "base_defence", "base_def"),
                                     base_of(p, "base_stamina", "base_sta"),
                                     PVP_LEAGUE_CAPS[league]))

\* lines 969-984: no ranking entry, or a CP above the cap of the league (a
\* CP that int() refuses is passed over)
after_ranking(p, league, category, threshold, top_n, found, tcache) ==
    IF found.entry = NONE
    THEN [ret |-> "False", stage |-> "ranking", p |-> p,
          pcache |-> found.pcache, rcache |-> found.rcache, tcache |-> tcache]
    ELSE IF "cp" \in DOMAIN p /\ ~int_fails(p, "cp") /\ p.cp > PVP_LEAGUE_CAPS[league]
    THEN [ret |-> "False", stage |-> "cp", p |-> p,
          pcache |-> found.pcache, rcache |-> found.rcache, tcache |-> tcache]
    ELSE cached_top(p, league, category, threshold, top_n, found, tcache,
                    <<get(p, "number", 0), get(p, "form", ""), league>>)

\* pvp_match_and_annotate: what the call returns ("True", "False", or the
\* RuntimeError of get_cpm that it lets through), the check at which it left,
\* the record and the three caches after the call
pvp_match_and_annotate(p, league, category, threshold, top_n, pcache, rcache, tcache) ==
    IF league \notin DOMAIN PVP_LEAGUE_CAPS
    THEN [ret |-> "False", stage |-> "league", p |-> p,
          pcache |-> pcache, rcache |-> rcache, tcache |-> tcache]
    ELSE IF ~({"attack", "defence", "stamina"} \subseteq DOMAIN p)
    THEN [ret |-> "False", stage |-> "ivs", p |-> p,
          pcache |-> pcache, rcache |-> rcache, tcache |-> tcache]
    ELSE IF \/ int_fails(p, "attack") \/ int_fails(p, "defence") \/ int_fails(p, "stamina")
            \/ base_fails(p, "base_attack", "base_atk")
            \/ base_fails(p, "base_defence", "base_def")
            \/ base_fails(p, "base_stamina", "base_sta")
    THEN [ret |-> "False", stage |-> "int", p |-> p,
          pcache |-> pcache, rcache |-> rcache, tcache |-> tcache]
    ELSE after_ranking(p, league, category, threshold, top_n,
                       find_ranked(pvp_prefix_candidates(p), 1, category, league,
                                   pcache, rcache),
                       tcache)

(***************************************************************************)
(* The ranking files, the collections and the calls of the PVP behaviours. *)
(***************************************************************************)
\* an entry of a ranking file
Entry(sid, rating) == [speciesId |-> sid, rating |-> rating]

\* the ranking files on disk, by <<category, league>>; there is none for ML
RankingSets ==
    { (<<"overall", "GL">> :> <<Entry("mewtwo", 700), Entry("mew", 650),
                                Entry("mewtwo_shadow", 720),
                                Entry("raichu_alolan", 600), [rating |-> 900]>>)
      @@ (<<"overall", "UL">> :> <<Entry("mew", 500), Entry("mew", 640),
                                   Entry("mewtwo_armored", 640),
                                   Entry("mewtwo_shadow", 640)>>)
      @@ (<<"little", "GL">> :> <<[rating |-> 10], Entry("raichu", 300),
                                  Entry("raichu_alolan", 450)>>),
      (<<"overall", "GL">> :> <<Entry("mewtwo_shadow", 500), Entry("mewtwo", 450),
                                Entry("raichu", 300)>>)
      @@ (<<"overall", "UL">> :> <<Entry("raichu_alolan", 410), Entry("mewtwo", 420)>>) }

\* uploaded records after enrichment
Mew ==
    [number |-> 151, name |-> "Mew", form |-> "", shadow |-> FALSE,
     attack |-> 1, defence |-> 1, stamina |-> 1,
     base_attack |-> 10, base_defence |-> 10, base_stamina |-> 10, cp |-> 1400]
MewNoAttack ==
    [number |-> 151, name |-> "Mew", form |-> "", shadow |-> FALSE,
     defence |-> 1, stamina |-> 1,
     base_attack |-> 10, base_defence |-> 10, base_stamina |-> 10, cp |-> 1400]
Mewtwo ==
    [number |-> 150, name |-> "Mewtwo", form |-> "MEWTWO_NORMAL", shadow |-> TRUE,
     attack |-> 2, defence |-> 0, stamina |-> 2,
     base_atk |-> 11, base_def |-> 10, base_sta |-> 10, cp |-> 2000]
RaichuAlola ==
    [number |-> 26, name |-> "Raichu", form |-> "RAICHU_ALOLA", shadow |-> FALSE,
     attack |-> 0, defence |-> 2, stamina |-> 1,
     base_attack |-> 11, base_defence |-> 10, base_stamina |-> 10]
RaichuNoStats ==
    [number |-> 26, name |-> "Raichu", form |-> "", shadow |-> FALSE,
     attack |-> 2, defence |-> 2, stamina |-> 2]

\* records with a value that int() refuses: an IV, a base stat, the CP
MewTextAttack == [not_int |-> {"attack"}] @@ [Mew EXCEPT !.attack = 0]
MewTextBase == [not_int |-> {"base_stamina"}] @@ [Mew EXCEPT !.base_stamina = 0]
MewTextCp == [not_int |-> {"cp"}] @@ [Mew EXCEPT !.cp = 0]

\* a record of the same species and form enriched from another master.json
\* (enriched files are kept on disk, and uploads that look enriched are kept
\* as they are)
MewOtherStats ==
    [Mew EXCEPT !.base_attack = 13, !.base_defence = 8, !.base_stamina = 9]

PvpPools ==
    {<<Mew>>, <<Mew, Mewtwo>>, <<RaichuAlola, RaichuNoStats>>, <<MewNoAttack, Mew>>,
     <<MewTextAttack, MewTextCp>>, <<MewTextBase>>, <<Mew, MewOtherStats>>}

\* <<league, category, threshold, top_n>>; the request handler calls with
\* threshold 2 and top_n 10
PvpCalls ==
    {<<"GL", "overall", 2, 10>>, <<"GL", "overall", 2, 1>>, <<"GL", "overall", 0, 1>>,
     <<"UL", "Little", 1, 10>>, <<"ML", "", 2, 10>>, <<"XX", "overall", 2, 10>>,
     <<"UL", "Bogus", 2, 0>>, <<"GL", "Bogus", 2, 10>>}

\* <<category, league, prefix>>
LookupCalls ==
    {<<"overall", "GL", "mew">>, <<"overall", "GL", "raichu">>,
     <<"Bogus", "UL", "mewtwo">>, <<"Little", "GL", "rai">>,
     <<"", "ML", "mew">>, <<"overall", "UL", "mew">>}

\* the multiplier tables of the PVP behaviours: a loaded one, and none
PvpCpmTables == {FullTable(100, 15), <<>>}

Init ==
    /\ IdleFilter
    /\ IdleTop
    /\ IdleTeams
    /\ IdleUploads
    /\ CPM_INT \in PvpCpmTables
    /\ ranking_files \in RankingSets
    /\ PVP_RANKINGS_CACHE = <<>>
    /\ PVP_PREFIX_BEST_CACHE = <<>>
    /\ PVP_TOP10_IV_CACHE = <<>>
    /\ pool \in PvpPools
    /\ last = NoCall
    /\ ncalls = 0

\* one call pvp_match_and_annotate(pool[i], league, category, threshold, top_n)
Annotate(i, c) ==
    /\ ncalls < MaxCalls
    /\ i \in 1..Len(pool)
    /\ \E r \in {pvp_match_and_annotate(pool[i], c[1], c[2], c[3], c[4],
                    PVP_PREFIX_BEST_CACHE, PVP_RANKINGS_CACHE, PVP_TOP10_IV_CACHE)} :
           /\ pool' = [pool EXCEPT ![i] = r.p]
           /\ PVP_PREFIX_BEST_CACHE' = r.pcache
           /\ PVP_RANKINGS_CACHE' = r.rcache
           /\ PVP_TOP10_IV_CACHE' = r.tcache
           /\ last' = [op |-> "annotate", idx |-> i, league |-> c[1], category |-> c[2],
                       threshold |-> c[3], top_n |-> c[4], prefix |-> "",
                       ret |-> r.ret, stage |-> r.stage, entry |-> NONE,
                       before |-> pool[i]]
    /\ ncalls' = ncalls + 1
    /\ UNCHANGED <<filter_vars, CPM_INT, top_vars, ranking_files, team_vars, upload_vars>>

\* one call best_ranking_entry_for_prefix(category, league, prefix)
Lookup(c) ==
    /\ ncalls < MaxCalls
    /\ \E r \in {best_ranking_entry_for_prefix(c[1], c[2], c[3],
                    PVP_PREFIX_BEST_CACHE, PVP_RANKINGS_CACHE)} :
           /\ PVP_PREFIX_BEST_CACHE' = r.pcache
           /\ PVP_RANKINGS_CACHE' = r.rcache
           /\ last' = [op |-> "lookup", idx |-> 0, league |-> c[2], category |-> c[1],
                       threshold |-> 0, top_n |-> 0, prefix |-> c[3],
                       ret |-> "none", stage |-> "none", entry |-> r.entry,
                       before |-> NONE]
    /\ ncalls' = ncalls + 1
    /\ UNCHANGED <<filter_vars, CPM_INT, top_vars, ranking_files, PVP_TOP10_IV_CACHE, pool,
                   team_vars, upload_vars>>

Next ==
    \/ \E i \in 1..MaxList, c \in PvpCalls : Annotate(i, c)
    \/ \E c \in LookupCalls : Lookup(c)

Spec == Init /\ [][Next]_vars

(***************************************************************************)
(* Claims about the annotator and the ranking index, under Spec.           *)
(***************************************************************************)
\* the last step was a call of pvp_match_and_annotate
Annotated == last.op = "annotate"

\* C1: whenever pvp_match_and_annotate returns False, the record has exactly
\* the fields and values it had before the call.
C1_FalseLeavesRecord ==
    (Annotated /\ last.ret = "False") => pool[last.idx] = last.before

\* a call that got as far as the comparison with the top spreads, found none
\* close enough and returned False
C1_Witness ==
    /\ Annotated
    /\ last.ret = "False"
    /\ last.stage = "match"
    /\ pool[last.idx] = last.before

\* the annotation fields of a record
PvpFieldNames ==
    {"pvp_enabled", "pvp_league", "pvp_rank_top10", "pvp_distance_max",
     "pvp_distance_sum", "pvp_delta_atk", "pvp_delta_def", "pvp_delta_stm",
     "pvp_meta_atk", "pvp_meta_def", "pvp_meta_stm", "pvp_meta_level", "pvp_meta_cp",
     "pvp_best_atk", "pvp_best_def", "pvp_best_stm", "pvp_best_level", "pvp_best_cp",
     "pvp_species_prefix", "pvp_species_id", "pvp_rating", "pvp_meta_rank",
     "pvp_category"}

\* C2: after any sequence of calls, the annotation fields of every record are
\* all absent or all present.
C2_AllOrNone ==
    \A i \in 1..Len(pool) :
        LET present == PvpFieldNames \cap DOMAIN pool[i]
        IN  present = {} \/ present = PvpFieldNames

\* a record annotated by one call, after a second call on it that failed
C2_Witness ==
    /\ Annotated
    /\ ncalls = 2
    /\ last.ret = "False"
    /\ PvpFieldNames \subseteq DOMAIN pool[last.idx]

\* the top spreads the last call compared the record with: the cached list of
\* the record's key, cut to top_n
TopOfLast ==
    take(PVP_TOP10_IV_CACHE[<<last.before.number, last.before.form, last.league>>],
         last.top_n)

\* the absolute deltas of the record of the last call against a spread
DeltasOfLast(cand) ==
    <<abs(last.before.attack - cand.atk_iv), abs(last.before.defence - cand.def_iv),
      abs(last.before.stamina - cand.stm_iv)>>

MatchesLast(cand) == \A k \in 1..3 : DeltasOfLast(cand)[k] <= last.threshold

ScoreOfLast(cand) ==
    LET dl == DeltasOfLast(cand)
    IN  <<max3(dl[1], dl[2], dl[3]), dl[1] + dl[2] + dl[3]>>

\* C3: a call that reaches the comparison succeeds iff some top spread is
\* within the threshold on all three axes, and the spread it annotates with is
\* a matching one whose (max delta, sum of deltas) no matching spread beats.
C3_MatchAndClosest ==
    (Annotated /\ last.stage \in {"top", "match"}) =>
        /\ (last.ret = "True") <=> (\E k \in 1..Len(TopOfLast) : MatchesLast(TopOfLast[k]))
        /\ (last.ret = "True") =>
              LET r == pool[last.idx]
                  used == TopOfLast[r.pvp_rank_top10]
              IN  /\ r.pvp_rank_top10 \in 1..Len(TopOfLast)
                  /\ MatchesLast(used)
                  /\ <<r.pvp_meta_atk, r.pvp_meta_def, r.pvp_meta_stm>>
                        = <<used.atk_iv, used.def_iv, used.stm_iv>>
                  /\ <<r.pvp_distance_max, r.pvp_distance_sum>> = ScoreOfLast(used)
                  /\ \A k \in 1..Len(TopOfLast) :
                        MatchesLast(TopOfLast[k]) =>
                            ~tuple_less(ScoreOfLast(TopOfLast[k]), ScoreOfLast(used))

\* the record one point below the only top spread on every axis: annotated by
\* a call with threshold 2, then refused by a call with threshold 0
C3_Witness ==
    /\ Annotated
    /\ last.stage = "match"
    /\ last.threshold = 0
    /\ last.ret = "False"
    /\ Len(TopOfLast) = 1
    /\ DeltasOfLast(TopOfLast[1]) = <<1, 1, 1>>
    /\ "pvp_distance_max" \in DOMAIN pool[last.idx]
    /\ pool[last.idx].pvp_distance_max = 1
    /\ pool[last.idx].pvp_delta_atk = -1

\* the ranking list the last lookup read
ListOfLast ==
    LET key == <<norm_category(last.category), last.league>>
    IN  IF key \in DOMAIN ranking_files THEN ranking_files[key] ELSE <<>>

\* the positions of the entries with an identifier
Identified == {k \in 1..Len(ListOfLast) : "speciesId" \in DOMAIN ListOfLast[k]}

ExactBucket == {k \in Identified : ListOfLast[k].speciesId = last.prefix}

BoundaryBucket ==
    {k \in Identified \ ExactBucket :
        startswith(ListOfLast[k].speciesId, last.prefix \o "_")}

GeneralBucket ==
    {k \in Identified \ (ExactBucket \cup BoundaryBucket) :
        startswith(ListOfLast[k].speciesId, last.prefix)}

FirstBucket ==
    IF ExactBucket # {} THEN ExactBucket
    ELSE IF BoundaryBucket # {} THEN BoundaryBucket
    ELSE GeneralBucket

\* C6: best_ranking_entry_for_prefix returns a highest-rated entry of the
\* first non-empty bucket in the order exact, boundary, general prefix, and
\* None when the three buckets are empty.
C6_BucketPrecedence ==
    (last.op = "lookup") =>
        IF FirstBucket = {} THEN last.entry = NONE
        ELSE /\ last.entry # NONE
             /\ \E k \in FirstBucket :
                   /\ last.entry.speciesId = ListOfLast[k].speciesId
                   /\ last.entry.rating = ListOfLast[k].rating
                   /\ \A j \in FirstBucket : ListOfLast[j].rating <= ListOfLast[k].rating

\* the list holds the identifier and a longer, higher-rated one that starts
\* with it, and the lookup returned the exact one
C6_Witness ==
    /\ last.op = "lookup"
    /\ last.entry # NONE
    /\ last.entry.speciesId = last.prefix
    /\ \E k \in Identified \ ExactBucket :
          /\ startswith(ListOfLast[k].speciesId, last.prefix)
          /\ ListOfLast[k].rating > last.entry.rating

(***************************************************************************)
(* compute_best_teams.  A team is [score, members]; the summary lists of   *)
(* strengths and weaknesses, computed from the same maps for display, are  *)
(* left out.                                                               *)
(***************************************************************************)
\* the candidates kept after the sort by rank: candidates[:30]
MaxCandidates == 4

\* "int(x or d)" for an integer x
or_default(x, dflt) == IF x = 0 THEN dflt ELSE x

\* _k: the key by which the instance kept for an identifier is chosen
_k(x) ==
    <<or_default(get(x, "pvp_distance_sum", 999999), 999999),
      or_default(get(x, "pvp_distance_max", 999999), 999999),
      or_default(get(x, "pvp_rank_top10", 999999), 999999),
      get(x, "cp", 0)>>

\* _rank
_rank(p) == or_default(get(p, "pvp_meta_rank", 0), 999999)

\* "p.get("pvp_enabled") and p.get("pvp_meta_rank")"
has_annotation(p) == get(p, "pvp_enabled", FALSE) = TRUE /\ get(p, "pvp_meta_rank", 0) # 0

\* the later instance replaces the one kept even when its key is larger
keep_last(by_sid, p) ==
    IF get(p, "pvp_species_id", "") = "" THEN by_sid
    ELSE IF \E i \in 1..Len(by_sid) : by_sid[i].pvp_species_id = p.pvp_species_id
    THEN [i \in 1..Len(by_sid) |->
             IF by_sid[i].pvp_species_id = p.pvp_species_id THEN p ELSE by_sid[i]]
    ELSE Append(by_sid, p)

\* one step of the loop that fills by_sid (a dict: the identifiers keep the
\* order in which they were first seen)
keep_closest(by_sid, p) ==
    IF get(p, "pvp_species_id", "") = "" THEN by_sid
    ELSE IF \E i \in 1..Len(by_sid) : by_sid[i].pvp_species_id = p.pvp_species_id
    THEN [i \in 1..Len(by_sid) |->
             IF by_sid[i].pvp_species_id = p.pvp_species_id /\ tuple_less(_k(p), _k(by_sid[i]))
             THEN p ELSE by_sid[i]]
    ELSE Append(by_sid, p)

\* the collection taken as it is, several instances of a species included
keep_every_instance(recs, by_sid) == by_sid \o recs

RECURSIVE dedupe_by_sid(_, _)
\* "for p in pool: ..."
dedupe_by_sid(recs, by_sid) ==
    IF recs = <<>> THEN by_sid
    ELSE dedupe_by_sid(Tail(recs), keep_closest(by_sid, Head(recs)))

RECURSIVE insert_by_rank(_, _)
\* p put into the list sorted by _rank, after the records of the same rank
insert_by_rank(lst, p) ==
    IF lst = <<>> THEN <<p>>
    ELSE IF _rank(p) < _rank(Head(lst)) THEN <<p>> \o lst
    ELSE <<Head(lst)>> \o insert_by_rank(Tail(lst), p)

RECURSIVE sort_by_rank(_, _)
\* candidates.sort(key=_rank), a stable sort
sort_by_rank(lst, sorted) ==
    IF lst = <<>> THEN sorted
    ELSE sort_by_rank(Tail(lst), insert_by_rank(sorted, Head(lst)))

RECURSIVE build_rating_map(_, _)
\* _build_matchup_map and _build_counters_map: opponent -> rating, a later
\* item of the list overriding an earlier one
build_rating_map(items, out) ==
    IF items = <<>> THEN out
    ELSE build_rating_map(Tail(items),
             IF Head(items).opponent = "" THEN out
             ELSE (Head(items).opponent :> Head(items).rating) @@ out)

\* an element of prepared
prepared_of(p, entry) ==
    [pokemon |-> p, rank |-> _rank(p),
     matchups |-> IF entry = NONE THEN <<>>
                  ELSE build_rating_map(get(entry, "matchups", <<>>), <<>>),
     counters |-> IF entry = NONE THEN <<>>
                  ELSE build_rating_map(get(entry, "counters", <<>>), <<>>)]

RECURSIVE prepare(_, _, _, _, _, _)
RECURSIVE prepare_next(_, _, _, _, _, _)
\* the element for candidates[k] and the rest of the loop, given what
\* _entry_for returned
prepare_next(candidates, k, cat, league, done, r) ==
    prepare(candidates, k + 1, cat, league,
            Append(done, prepared_of(candidates[k], r.entry)),
            [pcache |-> r.pcache, rcache |-> r.rcache])

\* "for p in candidates: entry = _entry_for(p) ...": the prepared list and
\* the caches after the lookups
prepare(candidates, k, cat, league, done, caches) ==
    IF k > Len(candidates)
    THEN [prepared |-> done, pcache |-> caches.pcache, rcache |-> caches.rcache]
    ELSE prepare_next(candidates, k, cat, league, done,
             IF get(candidates[k], "pvp_species_prefix", "") = ""
             THEN [entry |-> NONE, pcache |-> caches.pcache, rcache |-> caches.rcache]
             ELSE best_ranking_entry_for_prefix(cat, league,
                      candidates[k].pvp_species_prefix, caches.pcache, caches.rcache))

\* COVERAGE_THRESHOLD
COVERAGE_THRESHOLD == 550

\* dict.get(oid, 0) on a rating map
rating_in(ratings, oid) ==
    IF ratings = <<>> THEN 0 ELSE IF oid \in DOMAIN ratings THEN ratings[oid] ELSE 0

\* the opponents of a rating map
opponents_of(ratings) == IF ratings = <<>> THEN {} ELSE DOMAIN ratings

\* the keys of threats: the union of the members' counters
threats_of(team) == UNION {opponents_of(team[i].counters) : i \in 1..Len(team)}

\* the keys of uncovered: the threats against which no member has a matchup
\* rating of at least COVERAGE_THRESHOLD
uncovered_of(team) ==
    {oid \in threats_of(team) :
        \A i \in 1..Len(team) : rating_in(team[i].matchups, oid) < COVERAGE_THRESHOLD}

\* sum(max(0, 2000 - r) for r in ranks)
meta_score(team) ==
    (IF team[1].rank < 2000 THEN 2000 - team[1].rank ELSE 0)
    + (IF team[2].rank < 2000 THEN 2000 - team[2].rank ELSE 0)
    + (IF team[3].rank < 2000 THEN 2000 - team[3].rank ELSE 0)

\* a slip: the bonus for the covered threats left out
score_without_bonus(meta, threat_count, uncovered_count) == meta - uncovered_count * 120

\* the score from the numbers of threats and of uncovered threats
score_of(meta, threat_count, uncovered_count) ==
    meta + (threat_count - uncovered_count) * 10 - uncovered_count * 120

\* _team_score: the score
_team_score(team) ==
    score_of(meta_score(team), Cardinality(threats_of(team)),
             Cardinality(uncovered_of(team)))

\* the m-th of the n*n*n index triples, in the order of the three loops
index_triple(m, n) ==
    <<((m - 1) \div (n * n)) + 1, (((m - 1) \div n) % n) + 1, ((m - 1) % n) + 1>>

\* the 3-combinations i < j < k of 1..n, in the order of the three loops
combinations(n) ==
    SelectSeq([m \in 1..(n * n * n) |-> index_triple(m, n)],
              LAMBDA t : t[1] < t[2] /\ t[2] < t[3])

\* the element of best for one combination
team_of(prepared, t) ==
    [score |-> _team_score(<<prepared[t[1]], prepared[t[2]], prepared[t[3]]>>),
     members |-> <<prepared[t[1]].pokemon, prepared[t[2]].pokemon, prepared[t[3]].pokemon>>]

\* one team per combination, in the order of the combinations
teams_for(prepared, combos) ==
    [m \in 1..Len(combos) |-> team_of(prepared, combos[m])]

\* best before the sort
all_teams(prepared) == teams_for(prepared, combinations(Len(prepared)))

RECURSIVE insert_by_score_asc(_, _)
insert_by_score_asc(lst, t) ==
    IF lst = <<>> THEN <<t>>
    ELSE IF t.score < Head(lst).score THEN <<t>> \o lst
    ELSE <<Head(lst)>> \o insert_by_score_asc(Tail(lst), t)

RECURSIVE insert_by_score(_, _)
\* t put into the list sorted by descending score, after the teams of the
\* same score
insert_by_score(lst, t) ==
    IF lst = <<>> THEN <<t>>
    ELSE IF t.score > Head(lst).score THEN <<t>> \o lst
    ELSE <<Head(lst)>> \o insert_by_score(Tail(lst), t)

RECURSIVE sort_by_score(_, _)
\* best.sort(key=lambda t: -score), a stable sort
sort_by_score(lst, sorted) ==
    IF lst = <<>> THEN sorted
    ELSE sort_by_score(Tail(lst), insert_by_score(sorted, Head(lst)))

\* the identifiers of a team's members
member_sids(t) ==
    SelectSeq([i \in 1..Len(t.members) |-> get(t.members[i], "pvp_species_id", "")],
              LAMBDA sid : sid # "")

\* tuple(sorted(sids)): two sorted tuples are equal iff each identifier occurs
\* as often in the one as in the other
team_key(sids) ==
    [sid \in {sids[i] : i \in 1..Len(sids)} |->
        Cardinality({i \in 1..Len(sids) : sids[i] = sid})]

RECURSIVE keep_distinct(_, _, _, _)
RECURSIVE keep_if_new(_, _, _, _, _)
\* the rest of the loop body for a team of three identifiers with the given
\* key: the test of max_teams comes after the append
keep_if_new(best, out, seen, max_teams, key) ==
    IF key \in seen THEN keep_distinct(Tail(best), out, seen, max_teams)
    ELSE IF Len(out) + 1 >= max_teams THEN Append(out, Head(best))
    ELSE keep_distinct(Tail(best), Append(out, Head(best)), seen \cup {key}, max_teams)

\* "for t in best: ...": the teams kept
keep_distinct(best, out, seen, max_teams) ==
    IF best = <<>> THEN out
    ELSE IF Len(member_sids(Head(best))) # 3
    THEN keep_distinct(Tail(best), out, seen, max_teams)
    ELSE keep_if_new(best, out, seen, max_teams, team_key(member_sids(Head(best))))

\* the end of compute_best_teams: the teams of the prepared candidates
teams_of_prepared(prep, max_teams) ==
    [teams |-> keep_distinct(sort_by_score(all_teams(prep.prepared), <<>>), <<>>, {},
                             max_teams),
     pcache |-> prep.pcache, rcache |-> prep.rcache]

\* fewer than 3 candidates: []; else name_map is built from the ranking list
\* (which loads it) and the candidates are prepared
teams_of_candidates(candidates, cat, league, max_teams, pcache, rcache) ==
    IF Len(candidates) < 3
    THEN [teams |-> <<>>, pcache |-> pcache, rcache |-> rcache]
    ELSE teams_of_prepared(
             prepare(candidates, 1, cat, league, <<>>,
                     [pcache |-> pcache,
                      rcache |-> _get_pvp_rankings(cat, league, rcache).rcache]),
             max_teams)

\* fewer than 3 annotated records: []; else one instance per identifier, by
\* rank, the first MaxCandidates
teams_of_pool(annotated, cat, league, max_teams, pcache, rcache) ==
    IF Len(annotated) < 3
    THEN [teams |-> <<>>, pcache |-> pcache, rcache |-> rcache]
    ELSE teams_of_candidates(
             take(sort_by_rank(dedupe_by_sid(annotated, <<>>), <<>>), MaxCandidates),
             cat, league, max_teams, pcache, rcache)

\* compute_best_teams: the teams and the two caches after the call
compute_best_teams(recs, league, category, max_teams, pcache, rcache) ==
    IF league \notin DOMAIN PVP_LEAGUE_CAPS
    THEN [teams |-> <<>>, pcache |-> pcache, rcache |-> rcache]
    ELSE teams_of_pool(SelectSeq(recs, has_annotation), norm_category(category), league,
                       max_teams, pcache, rcache)

(***************************************************************************)
(* compute_best_teams as a state machine: one call over a collection of    *)
(* records as the annotator leaves them.                                   *)
(***************************************************************************)
MaxPool == 5        \* the longest collection handed to compute_best_teams
MaxTeams == 3       \* the largest max_teams asked for

\* an item of an entry's "matchups" or "counters" list
Versus(opponent, rating) == [opponent |-> opponent, rating |-> rating]

\* an entry of a ranking file with its matchups and counters
TeamEntry(sid, rating, matchups, counters) ==
    [speciesId |-> sid, rating |-> rating, matchups |-> matchups, counters |-> counters]

\* the ranking files on disk: one list, whose last entry carries no matchup
\* lists
TeamRankingSets ==
    { (<<"overall", "GL">> :>
          <<TeamEntry("azu", 900, <<Versus("med", 600), Versus("reg", 400)>>,
                      <<Versus("ven", 300)>>),
            TeamEntry("med", 880, <<Versus("reg", 560)>>, <<Versus("azu", 400)>>),
            TeamEntry("reg", 870, <<Versus("ven", 700), Versus("", 999)>>,
                      <<Versus("med", 440)>>),
            TeamEntry("ven_shadow", 860, <<Versus("azu", 700)>>,
                      <<Versus("reg", 300), Versus("tal", 200)>>),
            Entry("tal", 850)>>) }

\* a record annotated for the Great League: the fields compute_best_teams reads
TeamMon(id, prefix, sid, rank, dsum, dmax, rtop, cp) ==
    [id |-> id, cp |-> cp, pvp_enabled |-> TRUE, pvp_league |-> "GL",
     pvp_category |-> "overall", pvp_species_prefix |-> prefix, pvp_species_id |-> sid,
     pvp_meta_rank |-> rank, pvp_distance_sum |-> dsum, pvp_distance_max |-> dmax,
     pvp_rank_top10 |-> rtop]

\* the records: two instances of one species, one of them a perfect match,
\* and one record that was never annotated
TeamMons ==
    { TeamMon("a1", "azu", "azu", 1, 2, 1, 3, 1490),
      TeamMon("a2", "azu", "azu", 1, 0, 0, 1, 1500),
      TeamMon("m1", "med", "med", 2, 1, 1, 2, 1480),
      TeamMon("r1", "reg", "reg", 3, 3, 2, 5, 1450),
      TeamMon("v1", "ven", "ven_shadow", 4, 2, 2, 4, 1495),
      TeamMon("t1", "tal", "tal", 5, 1, 1, 1, 1470),
      [id |-> "x1", cp |-> 1000] }

\* the collections: every order of up to MaxPool different records
TeamPools ==
    UNION { {s \in [1..n -> TeamMons] : \A i, j \in 1..n : i # j => s[i] # s[j]} :
            n \in 0..MaxPool }

\* the calls: <<league, category, max_teams>>
TeamCalls ==
    {<<"GL", "overall", m>> : m \in 0..MaxTeams}
    \cup {<<"GL", "", 3>>, <<"XX", "overall", 3>>, <<"UL", "Little", 3>>}

InitTeams ==
    /\ IdleFilter
    /\ IdleTop
    /\ IdleTeams
    /\ IdleUploads
    /\ CPM_INT = <<>>
    /\ ranking_files \in TeamRankingSets
    /\ PVP_RANKINGS_CACHE = <<>>
    /\ PVP_PREFIX_BEST_CACHE = <<>>
    /\ PVP_TOP10_IV_CACHE = <<>>
    /\ pool \in TeamPools
    /\ last = NoCall
    /\ ncalls = 0

\* one call compute_best_teams(pool, league, category, max_teams)
BestTeams(c) ==
    /\ team_args.called = FALSE
    /\ \E r \in {compute_best_teams(pool, c[1], c[2], c[3],
                    PVP_PREFIX_BEST_CACHE, PVP_RANKINGS_CACHE)} :
           /\ best_teams' = r.teams
           /\ PVP_PREFIX_BEST_CACHE' = r.pcache
           /\ PVP_RANKINGS_CACHE' = r.rcache
    /\ team_args' = [league |-> c[1], category |-> c[2], max_teams |-> c[3],
                     called |-> TRUE]
    /\ UNCHANGED <<filter_vars, CPM_INT, top_vars, ranking_files, PVP_TOP10_IV_CACHE,
                   pool, last, ncalls, upload_vars>>

NextTeams == \E c \in TeamCalls : BestTeams(c)

SpecTeams == InitTeams /\ [][NextTeams]_vars

\* C13: for every max_teams >= 0 the call returns at most max_teams teams
C13_AtMostMaxTeams ==
    team_args.called => Len(best_teams) <= team_args.max_teams

\* for every max_teams >= 1 the call returns at most max_teams teams, and
\* for max_teams = 0 at most one
C13_AtMostMaxTeamsOrOne ==
    team_args.called =>
        Len(best_teams) <= (IF team_args.max_teams = 0 THEN 1 ELSE team_args.max_teams)

\* the pvp_species_id of each member of a returned team ("" when missing)
SidsOf(t) == [i \in 1..Len(t.members) |-> get(t.members[i], "pvp_species_id", "")]

\* C14: every returned team has exactly 3 members whose pvp_species_id are 3
\* pairwise different identifiers, and no two returned teams have the same
\* identifiers (the same sorted triple)
C14_DistinctTeams ==
    team_args.called =>
        /\ \A n \in 1..Len(best_teams) :
               /\ Len(best_teams[n].members) = 3
               /\ \A i \in 1..3 : SidsOf(best_teams[n])[i] # ""
               /\ \A i, j \in 1..3 :
                      i # j => SidsOf(best_teams[n])[i] # SidsOf(best_teams[n])[j]
        /\ \A n, m \in 1..Len(best_teams) :
               n # m => team_key(SidsOf(best_teams[n])) # team_key(SidsOf(best_teams[m]))

\* several teams came back from a collection holding two instances of one
\* species
C14_Witness ==
    /\ team_args.called
    /\ Len(best_teams) >= 2
    /\ \E i, j \in 1..Len(pool) :
           /\ i # j
           /\ has_annotation(pool[i]) /\ has_annotation(pool[j])
           /\ pool[i].pvp_species_id = pool[j].pvp_species_id

\* the candidates that survive in the pool: annotated, one instance per
\* identifier, by rank, the first MaxCandidates
SurvivingCandidates ==
    take(sort_by_rank(dedupe_by_sid(SelectSeq(pool, has_annotation), <<>>), <<>>),
         MaxCandidates)

\* every 3-combination of the surviving candidates with its score
ScoredCombinations ==
    all_teams(prepare(SurvivingCandidates, 1, norm_category(team_args.category),
                      team_args.league, <<>>,
                      [pcache |-> <<>>, rcache |-> <<>>]).prepared)

\* C15: the returned teams are in non-increasing order of score, the first
\* has the greatest score of all 3-combinations of the surviving candidates,
\* and no combination left out scores strictly higher than a returned team
C15_BestFirst ==
    (team_args.called /\ best_teams # <<>>) =>
        /\ \A n \in 1..(Len(best_teams) - 1) :
               best_teams[n].score >= best_teams[n + 1].score
        /\ \A t \in Elems(ScoredCombinations) :
               /\ t.score <= best_teams[1].score
               /\ t \notin Elems(best_teams) =>
                      \A n \in 1..Len(best_teams) : t.score <= best_teams[n].score

\* teams of different scores came back, the best of them is not the first
\* combination, and some combination was left out
C15_Witness ==
    /\ team_args.called
    /\ Len(best_teams) >= 2
    /\ best_teams[1].score > best_teams[Len(best_teams)].score
    /\ best_teams[1] # ScoredCombinations[1]
    /\ \E t \in Elems(ScoredCombinations) : t \notin Elems(best_teams)

\* C16: with an empty multiplier table a call of pvp_match_and_annotate
\* returns False and leaves the record as it was, for every record (those
\* with positive base stats and a ranking entry included); it never raises
C16_DegradesWithoutTable ==
    (Annotated /\ CPM_INT = <<>>) =>
        /\ last.ret = "False"
        /\ pool[last.idx] = last.before

\* with an empty multiplier table a call returns False at the checks made
\* before the top spreads are computed and for a record without base stats,
\* raises RuntimeError otherwise, and leaves the record as it was
C16_RaisesWithoutTable ==
    (Annotated /\ CPM_INT = <<>>) =>
        /\ last.ret = (IF last.stage = "raise" THEN "RuntimeError" ELSE "False")
        /\ last.stage \in {"league", "ivs", "int", "ranking", "cp", "top", "raise"}
        /\ last.stage = "top" => base_of(last.before, "base_attack", "base_atk") = 0
        /\ pool[last.idx] = last.before

\* the record the last call was made for holds a value that int() refuses in
\* one of the given fields
TextIn(fields) == Annotated /\ get(last.before, "not_int", {}) \cap fields # {}

\* the IV and the base-stat fields
StatFields ==
    {"attack", "defence", "stamina", "base_attack", "base_defence", "base_stamina",
     "base_atk", "base_def", "base_sta"}

OwnTop(p, league) ==
    compute_top10_ivs(base_of(p, "base_attack", "base_atk"),
                      base_of(p, "base_defence", "base_def"),
                      base_of(p, "base_stamina", "base_sta"),
                      PVP_LEAGUE_CAPS[league]).value

\* the key of the spread cache for a record
SpreadKey(p, league) == <<get(p, "number", 0), get(p, "form", ""), league>>

\* every entry of the prefix cache is what the search of the ranking list
\* returns with empty caches
PrefixCachePure ==
    \A key \in DOMAIN PVP_PREFIX_BEST_CACHE :
        PVP_PREFIX_BEST_CACHE[key] # <<>> =>
            \A prefix \in DOMAIN PVP_PREFIX_BEST_CACHE[key] :
                PVP_PREFIX_BEST_CACHE[key][prefix]
                    = best_ranking_entry_for_prefix(key[1], key[2], prefix, <<>>, <<>>).entry

\* the call before was one that read the spread cache
ReadSpreadCache == Annotated /\ last.stage \in {"top", "match"}

\* C19: both caches are functions of their key: the spreads a call takes
\* from the spread cache are the spreads recomputed from its own record's
\* base stats, and every entry of the prefix cache is the entry recomputed
\* from the ranking list
C19_CachesPure ==
    /\ PrefixCachePure
    /\ ReadSpreadCache =>
           PVP_TOP10_IV_CACHE[SpreadKey(last.before, last.league)]
               = OwnTop(last.before, last.league)

\* the prefix cache is a function of its key, and so is the spread cache as
\* long as the records of one species number and form carry the same base
\* stats
C19_PureForEqualBaseStats ==
    /\ PrefixCachePure
    /\ (/\ ReadSpreadCache
        /\ \A i \in 1..Len(pool) :
               SpreadKey(pool[i], last.league) = SpreadKey(last.before, last.league)
                   => OwnTop(pool[i], last.league) = OwnTop(last.before, last.league))
       => PVP_TOP10_IV_CACHE[SpreadKey(last.before, last.league)]
              = OwnTop(last.before, last.league)

\* the tuple (distance-sum, distance-max, rank within the top 10, CP) of an
\* annotated record
ClosenessOf(p) ==
    <<p.pvp_distance_sum, p.pvp_distance_max, p.pvp_rank_top10, get(p, "cp", 0)>>

\* the members of the returned teams
ReturnedMembers ==
    UNION {{best_teams[n].members[i] : i \in 1..Len(best_teams[n].members)} :
           n \in 1..Len(best_teams)}

\* the annotated records of the pool with the ranking identifier of m
SameSpecies(m) ==
    {p \in Elems(pool) : has_annotation(p) /\ p.pvp_species_id = m.pvp_species_id}

\* C22: the record that stands for a ranking identifier in the teams is the
\* one with the lexicographically smallest (distance-sum, distance-max, rank
\* within the top 10, CP) among the annotated records of that identifier; a
\* record with distances 0 is preferred over one with positive distances
C22_SmallestTupleKept ==
    team_args.called =>
        \A m \in ReturnedMembers :
            \A p \in SameSpecies(m) : ~tuple_less(ClosenessOf(p), ClosenessOf(m))

\* the record that stands for a ranking identifier is the one with the
\* smallest tuple once every 0 in it is replaced by 999999 (the first of them
\* in the pool when several have it)
C22_SmallestCodeKeyKept ==
    team_args.called =>
        \A m \in ReturnedMembers :
            \A p \in SameSpecies(m) : ~tuple_less(_k(p), _k(m))

\* the ranking list the call consulted
ConsultedList ==
    get(ranking_files, <<norm_category(team_args.category), team_args.league>>, <<>>)

\* the items of the given list ("matchups" or "counters") of the ranking
\* entry of a member, as the set of <<position, opponent, rating>>
ItemsOf(lst, m, list_name) ==
    UNION {{<<k, get(lst[e], list_name, <<>>)[k].opponent,
              get(lst[e], list_name, <<>>)[k].rating>> :
               k \in 1..Len(get(lst[e], list_name, <<>>))} :
           e \in {e \in 1..Len(lst) : get(lst[e], "speciesId", "") = m.pvp_species_id}}

\* the distinct opponents in the union of the members' counters
ThreatsOf(lst, t) ==
    {it[2] : it \in UNION {ItemsOf(lst, t.members[i], "counters") : i \in 1..3}} \ {""}

\* some member has a matchup rating of at least 550 against the opponent
\* (the last item of a list counts when the opponent is listed twice)
CoveredBy(lst, t, oid) ==
    \E i \in 1..3 : \E it \in ItemsOf(lst, t.members[i], "matchups") :
        /\ it[2] = oid
        /\ it[3] >= 550
        /\ \A o \in ItemsOf(lst, t.members[i], "matchups") : o[2] = oid => o[1] <= it[1]

\* the threats against which no member has such a matchup
UncoveredOf(lst, t) == {oid \in ThreatsOf(lst, t) : ~CoveredBy(lst, t, oid)}

\* sum over the members of max(0, 2000 - meta rank)
MetaScoreOf(t) ==
    LET part(i) == IF t.members[i].pvp_meta_rank < 2000
                   THEN 2000 - t.members[i].pvp_meta_rank ELSE 0
    IN  part(1) + part(2) + part(3)

\* the score the formula gives for the numbers of threats and of uncovered
\* threats
FormulaScore(meta, threat_count, uncovered_count) ==
    meta + (threat_count - uncovered_count) * 10 - uncovered_count * 120

\* C23: the score of every returned team is metaScore + (totalThreats -
\* uncoveredCount) * 10 - uncoveredCount * 120, with metaScore the sum of
\* max(0, 2000 - metaRank) over the 3 members, totalThreats the number of
\* distinct opponents in the members' counters, and a threat uncovered iff
\* no member has a matchup rating >= 550 against it
C23_ScoreFormula ==
    team_args.called =>
        \A lst \in {ConsultedList} :
            \A n \in 1..Len(best_teams) :
                best_teams[n].score
                    = FormulaScore(MetaScoreOf(best_teams[n]),
                                   Cardinality(ThreatsOf(lst, best_teams[n])),
                                   Cardinality(UncoveredOf(lst, best_teams[n])))

\* a returned team with a covered and an uncovered threat
C23_Witness ==
    /\ team_args.called
    /\ \E lst \in {ConsultedList} : \E n \in 1..Len(best_teams) :
           /\ UncoveredOf(lst, best_teams[n]) # {}
           /\ UncoveredOf(lst, best_teams[n]) # ThreatsOf(lst, best_teams[n])

\* the record of the last call, after the call
RecordOfLast == pool[last.idx]

\* C24: for every record annotated by a successful call: on each axis the
\* record's IV is pvp_meta IV + pvp_delta; pvp_distance_max is the largest of
\* the three absolute deltas and at most the threshold; pvp_distance_sum is
\* their sum; pvp_rank_top10 is the position of the chosen spread in the
\* examined list, within 1..min(top_n, 10), and the lowest position among
\* the spreads of the same (distance_max, distance_sum)
C24_AnnotationArithmetic ==
    (Annotated /\ last.ret = "True") =>
        /\ RecordOfLast.attack = RecordOfLast.pvp_meta_atk + RecordOfLast.pvp_delta_atk
        /\ RecordOfLast.defence = RecordOfLast.pvp_meta_def + RecordOfLast.pvp_delta_def
        /\ RecordOfLast.stamina = RecordOfLast.pvp_meta_stm + RecordOfLast.pvp_delta_stm
        /\ RecordOfLast.pvp_distance_max
               = max3(abs(RecordOfLast.pvp_delta_atk), abs(RecordOfLast.pvp_delta_def),
                      abs(RecordOfLast.pvp_delta_stm))
        /\ RecordOfLast.pvp_distance_max <= last.threshold
        /\ RecordOfLast.pvp_distance_sum
               = abs(RecordOfLast.pvp_delta_atk) + abs(RecordOfLast.pvp_delta_def)
                 + abs(RecordOfLast.pvp_delta_stm)
        /\ RecordOfLast.pvp_rank_top10 \in 1..(IF last.top_n < 10 THEN last.top_n ELSE 10)
        /\ \A lst \in {TopOfLast} :
               /\ RecordOfLast.pvp_rank_top10 <= Len(lst)
               /\ <<lst[RecordOfLast.pvp_rank_top10].atk_iv,
                    lst[RecordOfLast.pvp_rank_top10].def_iv,
                    lst[RecordOfLast.pvp_rank_top10].stm_iv>>
                      = <<RecordOfLast.pvp_meta_atk, RecordOfLast.pvp_meta_def,
                          RecordOfLast.pvp_meta_stm>>
               /\ \A k \in 1..(RecordOfLast.pvp_rank_top10 - 1) :
                      ScoreOfLast(lst[k])
                          # <<RecordOfLast.pvp_distance_max, RecordOfLast.pvp_distance_sum>>

\* a record annotated with a spread that is not the first of the list, has a
\* non-zero delta, and ties with a later spread of the list
C24_Witness ==
    /\ Annotated /\ last.ret = "True"
    /\ RecordOfLast.pvp_rank_top10 > 1
    /\ RecordOfLast.pvp_distance_sum > 0
    /\ \E lst \in {TopOfLast} : \E k \in 1..Len(lst) :
           /\ k > RecordOfLast.pvp_rank_top10
           /\ ScoreOfLast(lst[k])
                  = <<RecordOfLast.pvp_distance_max, RecordOfLast.pvp_distance_sum>>

\* an entry without its "rank" field
WithoutRank(e) == [f \in DOMAIN e \ {"rank"} |-> e[f]]

\* k is the position the scan settles on within the first non-empty bucket:
\* the first of the highest-rated entries
ChosenPosition(k) ==
    /\ k \in FirstBucket
    /\ \A j \in FirstBucket :
           \/ rating_of(ListOfLast[j]) < rating_of(ListOfLast[k])
           \/ rating_of(ListOfLast[j]) = rating_of(ListOfLast[k]) /\ j >= k

\* the loaded ranking lists are the lists of the files, whose entries carry
\* no "rank" field
ListsUntouched ==
    \A key \in DOMAIN PVP_RANKINGS_CACHE :
        /\ PVP_RANKINGS_CACHE[key] = get(ranking_files, key, <<>>)
        /\ \A k \in 1..Len(PVP_RANKINGS_CACHE[key]) :
               "rank" \notin DOMAIN PVP_RANKINGS_CACHE[key][k]

\* C25: the entry best_ranking_entry_for_prefix returns carries as rank the
\* 1-based position of the chosen entry in the list of its (category,
\* bracket); a successful pvp_match_and_annotate stores that value as
\* pvp_meta_rank; the lists and their entries are left as loaded
C25_RankIsPosition ==
    /\ ListsUntouched
    /\ (last.op = "lookup" /\ last.entry # NONE) =>
           /\ last.entry.rank \in 1..Len(ListOfLast)
           /\ ChosenPosition(last.entry.rank)
           /\ WithoutRank(last.entry) = ListOfLast[last.entry.rank]
    /\ (Annotated /\ last.ret = "True") =>
           /\ RecordOfLast.pvp_meta_rank \in 1..Len(ListOfLast)
           /\ ListOfLast[RecordOfLast.pvp_meta_rank]
                  = Entry(RecordOfLast.pvp_species_id, RecordOfLast.pvp_rating)
           /\ RecordOfLast.pvp_meta_rank
                  = PVP_PREFIX_BEST_CACHE[<<norm_category(last.category), last.league>>]
                                         [RecordOfLast.pvp_species_prefix].rank

\* a record annotated with an entry that is not the first of its list
C25_Witness ==
    /\ Annotated /\ last.ret = "True"
    /\ RecordOfLast.pvp_meta_rank > 1
    /\ Len(PVP_RANKINGS_CACHE[<<norm_category(last.category), last.league>>]) > 1

\* the keyword queries of the boolean flags, and the field in which
\* enrich_pokemon stores the flag of each
FlagKeywords == {"shiny", "shadow", "purified", "lucky", "legendary", "mythical"}
EnrichedFlag(keyword) == IF keyword = "mythical" THEN "mythic" ELSE keyword

\* the records of the list for which enrichment set the flag of the keyword
Flagged(keyword) ==
    {p \in Elems(pokemon_list) : get(p, EnrichedFlag(keyword), FALSE) = TRUE}

\* C26: over enriched records, each of the keyword queries shiny, shadow,
\* purified, lucky, legendary and mythical returns exactly the records whose
\* flag enrichment set; "mythical" returns every record of a mythic species
C26_FlagKeywords ==
    (fphase = "filtered" /\ search_query \in FlagKeywords) =>
        Elems(results) = Flagged(search_query)

\* what holds instead: the five keywords other than "mythical" return the
\* flagged records, and "mythical" returns nothing
C26_FlagKeywordsButMythical ==
    (fphase = "filtered" /\ search_query \in FlagKeywords) =>
        Elems(results) = IF search_query = "mythical" THEN {} ELSE Flagged(search_query)

\* C27: after a successful pvp_match_and_annotate the record's pvp_category
\* names the category whose ranking list was consulted: the given category
\* lower-cased when it is a recognised one, otherwise "overall"
C27_CategoryConsulted ==
    (Annotated /\ last.ret = "True") =>
        /\ RecordOfLast.pvp_category = norm_category(last.category)
        /\ <<RecordOfLast.pvp_category, last.league>> \in DOMAIN PVP_RANKINGS_CACHE

\* what holds instead: pvp_category is the given category lower-cased
\* ("overall" for an empty one), which is the consulted category whenever it
\* is a recognised one
C27_CategoryLowerCased ==
    (Annotated /\ last.ret = "True") =>
        /\ RecordOfLast.pvp_category
               = lower(IF last.category = "" THEN "overall" ELSE last.category)
        /\ RecordOfLast.pvp_category \in PVP_CATEGORIES
               => RecordOfLast.pvp_category = norm_category(last.category)

(***************************************************************************)
(* Uploads: extract_metadata_from_filename and upload_json with its        *)
(* progress entries (ENRICHMENT_PROGRESS, get_progress) and its retention  *)
(* of one export per logical user.  The uploader's directory holds files   *)
(* named by <<uuid, extension>>; None is modelled by the empty text for    *)
(* the user and the date the parser returns (it never returns an empty     *)
(* user, and the handler tests both with "if user and date").              *)
(***************************************************************************)
MaxUploads == 3       \* upload requests in a behaviour

IsWordChar(c) ==
    \/ IsDigit(c)
    \/ c = "_"
    \/ \E i \in 1..Len(UpperChars) : CharAt(UpperChars, i) = c \/ CharAt(LowerChars, i) = c

\* a match of r"\b(\d{2}-\d{2}-\d{4})\b" starts at position i of s
date_token_at(s, i) ==
    /\ i + 9 <= Len(s)
    /\ \A k \in {0, 1, 3, 4, 6, 7, 8, 9} : IsDigit(CharAt(s, i + k))
    /\ CharAt(s, i + 2) = "-"
    /\ CharAt(s, i + 5) = "-"
    /\ (i = 1 \/ ~IsWordChar(CharAt(s, i - 1)))
    /\ (i + 9 = Len(s) \/ ~IsWordChar(CharAt(s, i + 10)))

RECURSIVE last_date_token(_, _, _)
\* "for m in re.finditer(...): pass": the start of the last of the matches,
\* found from left to right without overlap (0 for no match)
last_date_token(s, i, found) ==
    IF i + 9 > Len(s) THEN found
    ELSE IF date_token_at(s, i) THEN last_date_token(s, i + 10, i)
    ELSE last_date_token(s, i + 1, found)

RECURSIVE strip_dashes(_)
\* s.strip("-")
strip_dashes(s) ==
    IF Len(s) = 0 THEN s
    ELSE IF CharAt(s, 1) = "-" THEN strip_dashes(SubSeq(s, 2, Len(s)))
    ELSE IF CharAt(s, Len(s)) = "-" THEN strip_dashes(SubSeq(s, 1, Len(s) - 1))
    ELSE s

is_leap(y) == (y % 4 = 0 /\ y % 100 # 0) \/ y % 400 = 0

days_in_month(m, y) ==
    IF m = 2 THEN (IF is_leap(y) THEN 29 ELSE 28)
    ELSE IF m \in {4, 6, 9, 11} THEN 30 ELSE 31

\* datetime.strptime(date_str, "%d-%m-%Y"): <<year, month, day>>, or <<>>
\* for the ValueError of a day, month or year that does not exist
strptime(date_str) ==
    LET dd == digits_value(SubSeq(date_str, 1, 2))
        mm == digits_value(SubSeq(date_str, 4, 5))
        yy == digits_value(SubSeq(date_str, 7, 10))
    IN  IF yy >= 1 /\ mm \in 1..12 /\ dd >= 1 /\ dd <= days_in_month(mm, yy)
        THEN <<yy, mm, dd>> ELSE <<>>

RECURSIVE zero_padded(_, _)
\* the digits of a number filled with zeros to at least w characters
zero_padded(text, w) == IF Len(text) >= w THEN text ELSE zero_padded("0" \o text, w)

\* date_obj.isoformat() of a date at midnight
isoformat(dt) ==
    zero_padded(str(dt[1]), 4) \o "-" \o zero_padded(str(dt[2]), 2) \o "-" \o zero_padded(str(dt[3]), 2)
    \o "T00:00:00"

\* datetime.fromisoformat(text) for the texts isoformat writes; <<>> for the
\* ValueError of any other text
fromisoformat(text) ==
    IF /\ Len(text) = 19
       /\ \A k \in {1, 2, 3, 4, 6, 7, 9, 10} : IsDigit(CharAt(text, k))
       /\ CharAt(text, 5) = "-" /\ CharAt(text, 8) = "-"
       /\ SubSeq(text, 11, 19) = "T00:00:00"
    THEN <<digits_value(SubSeq(text, 1, 4)), digits_value(SubSeq(text, 6, 7)),
           digits_value(SubSeq(text, 9, 10))>>
    ELSE <<>>

\* old_dt <= new_dt
dt_le(a, b) ==
    \/ a[1] < b[1]
    \/ a[1] = b[1] /\ a[2] < b[2]
    \/ a[1] = b[1] /\ a[2] = b[2] /\ a[3] <= b[3]

\* the tail of extract_metadata_from_filename, from the last date token at
\* position at of the stem
metadata_of_stem(stem, at) ==
    LET stripped == strip_dashes(SubSeq(stem, Len("Pokemons-") + 1, at - 1))
        user_part == IF startswith(stripped, "SpeedUnlocker-")
                     THEN SubSeq(stripped, Len("SpeedUnlocker-") + 1, Len(stripped))
                     ELSE stripped
        date_obj == strptime(SubSeq(stem, at, at + 9))
    IN  IF stripped = "" \/ date_obj = <<>>
        THEN [user |-> "", date |-> ""]
        ELSE [user |-> user_part, date |-> isoformat(date_obj)]

\* extract_metadata_from_filename: the logical user and the ISO date of an
\* export's file name
extract_metadata_from_filename(filename) ==
    LET stem == IF endswith(filename, ".json")
                THEN SubSeq(filename, 1, Len(filename) - Len(".json")) ELSE filename
    IN  IF filename = "" \/ ~startswith(stem, "Pokemons-")
        THEN [user |-> "", date |-> ""]
        ELSE LET at == last_date_token(stem, 1, 0)
             IN  IF at = 0 THEN [user |-> "", date |-> ""]
                 ELSE metadata_of_stem(stem, at)

\* the uploaded files of the other upload requests that the retention step
\* of an upload of (user, new_dt) removes: the ones whose meta file names an
\* export of the same logical user with a date that is not later
superseded(dir, file_uuid, user, new_dt) ==
    {fid \in {name[1] : name \in {n \in DOMAIN dir : n[2] = ".meta.json"}} :
        /\ fid # file_uuid
        /\ \E old \in {extract_metadata_from_filename(
                           dir[<<fid, ".meta.json">>].original_filename)} :
               /\ dir[<<fid, ".meta.json">>].original_filename # ""
               /\ old.user = user
               /\ old.date # ""
               /\ fromisoformat(old.date) # <<>>
               /\ dt_le(fromisoformat(old.date), new_dt)}

\* a function without the keys of a set
without(f, keys) == [k \in DOMAIN f \ keys |-> f[k]]

\* _delete_uuid_files for every identifier of a set
delete_uuid_files(dir, fids) ==
    without(dir, {<<fid, ext>> : fid \in fids, ext \in {".json", "_enriched.json", ".meta.json"}})

\* "Keep only the newest export per logical user": the directory and the
\* public index after the retention step of the upload file_uuid
retention(dir, index, file_uuid, meta) ==
    IF meta.user = "" \/ meta.date = "" \/ fromisoformat(meta.date) = <<>>
    THEN [dir |-> dir, index |-> index]
    ELSE LET old == superseded(dir, file_uuid, meta.user, fromisoformat(meta.date))
         IN  [dir |-> delete_uuid_files(dir, old), index |-> without(index, old)]

\* what upload_json does once every record is enriched: the enriched file,
\* the meta file, the public index entry and the retention step
store_export(dir, index, file_uuid, user_id, filename, count, meta) ==
    retention(dir @@ (<<file_uuid, "_enriched.json">> :> [total_pokemon |-> count])
                  @@ (<<file_uuid, ".meta.json">> :>
                         [original_filename |-> filename, user |-> meta.user,
                          date |-> meta.date, total_pokemon |-> count]),
              index @@ (file_uuid :> [user_id |-> user_id, original_filename |-> filename]),
              file_uuid, meta)

\* a record of the upload makes enrich_pokemon raise: a field it computes
\* with holds null ("attack + defence + stamina" with attack None)
enrich_raises(record) == record = "null_attack"

\* the file names of the upload requests
UploadNames ==
    {"Pokemons-Ash-02-12-2025.json", "Pokemons-Ash-12-12-2025.json",
     "Pokemons-SpeedUnlocker-Ash-12-12-2025-15.json", "Pokemons-Liz-18-11-2025.json",
     "Pokemons-Ash-31-02-2025.json", "notes.json", "notes.txt"}

\* the bodies of the upload requests: text that is no JSON, and objects
\* whose records come as a list (with an element that is no object, with a
\* record holding a null IV) or keyed by identifier
UploadBodies ==
    {[parsed |-> "error", container |-> "none", records |-> <<>>],
     [parsed |-> "dict", container |-> "list", records |-> <<"dict", "number">>],
     [parsed |-> "dict", container |-> "dict", records |-> <<"dict">>],
     [parsed |-> "dict", container |-> "list",
      records |-> <<"dict", "null_attack", "dict">>]}

\* the user_id form fields of the upload requests
UploadUsers == {"u1", ""}

InitUpload ==
    /\ IdleFilter
    /\ IdleTop
    /\ IdleTeams
    /\ IdleUploads
    /\ CPM_INT = <<>>
    /\ ranking_files = <<>>
    /\ PVP_RANKINGS_CACHE = <<>>
    /\ PVP_PREFIX_BEST_CACHE = <<>>
    /\ PVP_TOP10_IV_CACHE = <<>>
    /\ pool = <<>>
    /\ last = NoCall
    /\ ncalls = 0

\* an error response; file_id is the identifier the request's file was stored
\* under (0 for none), kept here to tell the requests apart
error_response(code, file_id) ==
    [code |-> code, file_id |-> file_id, filename |-> "", user |-> "", date |-> ""]

\* a request rejected before a file is stored: no user_id, no file name or a
\* name that does not end with ".json"
UploadRejected(user_id, filename) ==
    /\ upload.pc = "idle"
    /\ Len(responses) < MaxUploads
    /\ user_id = "" \/ filename = "" \/ ~endswith(filename, ".json")
    /\ responses' = Append(responses, error_response(400, 0))
    /\ UNCHANGED <<ENRICHMENT_PROGRESS, user_dir, public_index, upload, progress_reply>>
    /\ UNCHANGED <<filter_vars, CPM_INT, top_vars, pvp_vars, team_vars>>

\* the start of upload_json up to the loop over the records: the raw file is
\* stored under a new identifier and parsed, and either the request is
\* refused (no JSON) or the progress entry is created
UploadReceived(user_id, filename, body) ==
    /\ upload.pc = "idle"
    /\ Len(responses) < MaxUploads
    /\ user_id # "" /\ filename # "" /\ endswith(filename, ".json")
    /\ \E file_uuid \in {Len(responses) + 1} :
           /\ user_dir' = user_dir @@ (<<file_uuid, ".json">> :> body)
           /\ IF body.parsed = "error"
              THEN /\ responses' = Append(responses, error_response(400, file_uuid))
                   /\ UNCHANGED <<ENRICHMENT_PROGRESS, upload>>
              ELSE /\ ENRICHMENT_PROGRESS' =
                          ENRICHMENT_PROGRESS
                          @@ (file_uuid :> [current |-> 0, total |-> Len(body.records),
                                            status |-> "processing"])
                   /\ upload' = [pc |-> "enrich", file_uuid |-> file_uuid,
                                 user_id |-> user_id, filename |-> filename,
                                 records |-> body.records, idx |-> 0, enriched_data |-> 0]
                   /\ UNCHANGED responses
    /\ UNCHANGED <<public_index, progress_reply>>
    /\ UNCHANGED <<filter_vars, CPM_INT, top_vars, pvp_vars, team_vars>>

\* one round of the loop over the records: a record that is no object is
\* skipped, an object is enriched, and both advance "current"
EnrichRecord ==
    /\ upload.pc = "enrich"
    /\ upload.idx < Len(upload.records)
    /\ ~enrich_raises(upload.records[upload.idx + 1])
    /\ ENRICHMENT_PROGRESS' =
           [ENRICHMENT_PROGRESS EXCEPT ![upload.file_uuid].current = upload.idx + 1]
    /\ upload' = [upload EXCEPT !.idx = @ + 1,
                                !.enriched_data =
                                    IF upload.records[upload.idx + 1] = "dict"
                                    THEN @ + 1 ELSE @]
    /\ UNCHANGED <<user_dir, public_index, responses, progress_reply>>
    /\ UNCHANGED <<filter_vars, CPM_INT, top_vars, pvp_vars, team_vars>>

\* enrich_pokemon raises: "except Exception" answers with status 500
EnrichFails ==
    /\ upload.pc = "enrich"
    /\ upload.idx < Len(upload.records)
    /\ enrich_raises(upload.records[upload.idx + 1])
    /\ responses' = Append(responses, error_response(500, upload.file_uuid))
    /\ upload' = NoUpload
    /\ UNCHANGED <<ENRICHMENT_PROGRESS, user_dir, public_index, progress_reply>>
    /\ UNCHANGED <<filter_vars, CPM_INT, top_vars, pvp_vars, team_vars>>

\* the rest of upload_json after the loop
UploadStored ==
    /\ upload.pc = "enrich"
    /\ upload.idx = Len(upload.records)
    /\ ENRICHMENT_PROGRESS' =
           [ENRICHMENT_PROGRESS EXCEPT ![upload.file_uuid].status = "completed"]
    /\ \E meta \in {extract_metadata_from_filename(upload.filename)} :
           /\ \E r \in {store_export(user_dir, public_index, upload.file_uuid,
                                     upload.user_id, upload.filename,
                                     upload.enriched_data, meta)} :
                  /\ user_dir' = r.dir
                  /\ public_index' = r.index
           /\ responses' = Append(responses,
                                  [code |-> 200, file_id |-> upload.file_uuid,
                                   filename |-> upload.filename, user |-> meta.user,
                                   date |-> meta.date])
    /\ upload' = NoUpload
    /\ UNCHANGED progress_reply
    /\ UNCHANGED <<filter_vars, CPM_INT, top_vars, pvp_vars, team_vars>>

\* get_progress(file_id)
GetProgress(file_id) ==
    /\ progress_reply' = get(ENRICHMENT_PROGRESS, file_id, NotFound)
    /\ UNCHANGED <<ENRICHMENT_PROGRESS, user_dir, public_index, upload, responses>>
    /\ UNCHANGED <<filter_vars, CPM_INT, top_vars, pvp_vars, team_vars>>

NextUpload ==
    \/ \E u \in UploadUsers, n \in UploadNames : UploadRejected(u, n)
    \/ \E u \in UploadUsers, n \in UploadNames, b \in UploadBodies : UploadReceived(u, n, b)
    \/ EnrichRecord
    \/ EnrichFails
    \/ UploadStored
    \/ \E f \in 1..MaxUploads : GetProgress(f)

SpecUpload == InitUpload /\ [][NextUpload]_vars

(***************************************************************************)
(* Claims about the uploads, under SpecUpload.                             *)
(***************************************************************************)
\* the identifiers whose upload request has returned
ReturnedUploads == {responses[i].file_id : i \in 1..Len(responses)}

\* current is within 0..total in every progress entry
CurrentWithinTotal ==
    \A fid \in DOMAIN ENRICHMENT_PROGRESS :
        /\ ENRICHMENT_PROGRESS[fid].current >= 0
        /\ ENRICHMENT_PROGRESS[fid].current <= ENRICHMENT_PROGRESS[fid].total

\* a step keeps every progress entry and lowers no current
CurrentNotLowered ==
    \A fid \in DOMAIN ENRICHMENT_PROGRESS :
        /\ fid \in DOMAIN ENRICHMENT_PROGRESS'
        /\ ENRICHMENT_PROGRESS'[fid].current >= ENRICHMENT_PROGRESS[fid].current
        /\ ENRICHMENT_PROGRESS'[fid].total = ENRICHMENT_PROGRESS[fid].total

\* no entry of a returned upload request still says "processing"
ReturnedNotProcessing ==
    \A fid \in ReturnedUploads \cap DOMAIN ENRICHMENT_PROGRESS :
        ENRICHMENT_PROGRESS[fid].status # "processing"

\* C29: for every upload whose progress entry has been created, current
\* never exceeds total, current never decreases, and once the upload request
\* has returned, with success or with an error response, the entry's status
\* is no longer "processing"
C29_ProgressEntries ==
    /\ []CurrentWithinTotal
    /\ [][CurrentNotLowered]_vars
    /\ []ReturnedNotProcessing

\* what holds instead: the first two parts, and the third for the requests
\* answered with success; an entry whose request was answered with the
\* error of a raising record says "processing" for good
C29_CurrentWithinTotal == CurrentWithinTotal /\ progress_reply.current <= progress_reply.total

C29_CurrentNeverDecreases == [][CurrentNotLowered]_vars

C29_SettledBySuccessOnly ==
    \A i \in 1..Len(responses) :
        responses[i].file_id \in DOMAIN ENRICHMENT_PROGRESS =>
            /\ responses[i].code \in {200, 500}
            /\ ENRICHMENT_PROGRESS[responses[i].file_id].status
                   = IF responses[i].code = 200 THEN "completed" ELSE "processing"
            /\ responses[i].code = 200 =>
                   ENRICHMENT_PROGRESS[responses[i].file_id].current
                       = ENRICHMENT_PROGRESS[responses[i].file_id].total

\* the positions of the successful uploads of an export of logical user u
ExportsOf(u) ==
    {i \in 1..Len(responses) : responses[i].code = 200 /\ responses[i].user = u}

\* the logical users of the successful uploads
LogicalUsers ==
    {responses[i].user : i \in {j \in 1..Len(responses) : responses[j].code = 200}} \ {""}

\* something of the export uploaded at position i is still stored
Remains(i) ==
    \/ \E ext \in {".json", "_enriched.json", ".meta.json"} :
           <<responses[i].file_id, ext>> \in DOMAIN user_dir
    \/ responses[i].file_id \in DOMAIN public_index

\* the export uploaded at position i is stored whole
StoredWhole(i) ==
    /\ \A ext \in {".json", "_enriched.json", ".meta.json"} :
           <<responses[i].file_id, ext>> \in DOMAIN user_dir
    /\ user_dir[<<responses[i].file_id, ".meta.json">>].original_filename
           = responses[i].filename
    /\ responses[i].file_id \in DOMAIN public_index

\* the export date of position i is not later than that of position j
NotLater(i, j) == dt_le(fromisoformat(responses[i].date), fromisoformat(responses[j].date))

\* C30: after any sequence of successful uploads into the uploader's
\* directory, in any order of export dates, at most one stored export
\* remains per logical user, and it is the export with the newest date
C30_OneExportPerUser ==
    upload.pc = "idle" =>
        \A u \in LogicalUsers :
            \E kept \in ExportsOf(u) :
                /\ StoredWhole(kept)
                /\ \A i \in ExportsOf(u) : NotLater(i, kept)
                /\ \A i \in ExportsOf(u) \ {kept} : ~Remains(i)

\* what holds instead: an export remains, whole, exactly when no export of
\* the same logical user with the same or a later date was uploaded after it
C30_KeptUnlessSuperseded ==
    upload.pc = "idle" =>
        \A u \in LogicalUsers : \A i \in ExportsOf(u) :
            IF \E j \in ExportsOf(u) : j > i /\ NotLater(i, j)
            THEN ~Remains(i)
            ELSE StoredWhole(i)

\* the exports of every logical user were uploaded in the order of their dates
UploadedInDateOrder ==
    \A u \in LogicalUsers : \A i \in ExportsOf(u), j \in ExportsOf(u) :
        i < j => NotLater(i, j)

\* and so the claim holds for exports uploaded in the order of their dates
C30_OneExportInDateOrder == UploadedInDateOrder => C30_OneExportPerUser

====
